---- MODULE Spec2Model ----
(***************************************************************************)
(* Model of @mailtester/core: the validation orchestrator and result       *)
(* formatter, the bulk processor with its token-bucket rate limiter, and   *)
(* the SMTP prober and the MX resolver.                                    *)
(*                                                                         *)
(* Several specifications share the module:                                *)
(*   Spec        one pipeline run (ValidationOrchestrator.validate         *)
(*               followed by ResultFormatter.format)                       *)
(*   SpecBulk    one BulkProcessor.process call with its RateLimiter       *)
(*   SpecCalls   successive process calls on one BulkProcessor             *)
(*   SpecLimiter check() calls on one RateLimiter                          *)
(*   SpecSmtp    one SMTPValidator.validate call speaking to an SMTP peer  *)
(*   SpecRetry   the retry loop of SMTPValidator.validate                  *)
(*   SpecMx      one MXValidator.validate call against a DNS client        *)
(***************************************************************************)
EXTENDS Integers, Sequences, FiniteSets, TLC

VARIABLES
    \* ---- pipeline run (orchestrator.ts, output/formatter.ts) ----
    config,        \* merged configuration: enabled validators and earlyExit
    ctxEmail,      \* context.email
    stage,         \* index into validatorOrder of the next loop iteration
    ctxResults,    \* context.results in insertion order (Object.entries order)
    invoked,       \* names of the validators whose validate() was called
    pending,       \* validators whose validate() promise has not settled yet
    final,         \* the ValidationResult returned by format(), or NoResult
    \* ---- bulk processor (bulk/processor.ts, rate-limit/limiter.ts) ----
    emails,        \* the `emails` argument of process()
    opts,          \* the destructured options of process()
    rateLimiter,   \* BulkProcessor.rateLimiter (Null or a RateLimiter)
    now,           \* Date.now() in milliseconds
    procPc,        \* position of process(): idle, loop, waiting, returned, rejected
    batchStart,    \* loop variable i of process(), 1-based
    tasks,         \* per address: state of its batch promise and its check result
    results,       \* the local `results` array (sparse, index-addressed)
    completed,     \* local counter `completed`
    validCount,    \* local counter `validCount`
    invalidCount,  \* local counter `invalidCount`
    errorCount,    \* local counter `errorCount`
    progress,      \* the onProgress(completed, total) calls made so far
    validateCalls, \* indices for which validate(email, config) was called
    ret,           \* the BulkValidationResult returned, or the error thrown
    \* ---- SMTP prober (validators/smtp.ts) ----
    smtpConfig,    \* fields of the SMTPValidator: retries, tlsRequired, verifyMailbox
    smtpPc,        \* the await at which validate / performSMTPVerification stands
    io,            \* none, writing (socket.write pending), reading (listeners on)
    attempt,       \* loop variable `attempt` of validate()
    socket,        \* the attempt's socket: none (not created), open, tls, destroyed
    tlsUsed,       \* local `tlsUsed`
    buffer,        \* local `buffer` of the pending readSMTPResponse
    wire,          \* data sent by the peer and not yet delivered
    awaiting,      \* the peer has a greeting or a command to answer
    sent,          \* commands written during the current attempt
    heloResponse,  \* local `heloResponse` (the response to the first EHLO)
    caught,        \* the error held by the catch block while QUIT is exchanged
    lastError,     \* local `lastError` of validate()
    lastResult,    \* local `lastResult` of validate()
    lastSleep,     \* milliseconds of the last sleep() between attempts
    connections,   \* connectToSMTP calls made so far
    smtpResult,    \* the ValidatorResult returned by validate(), or NoResult
    uncaught,      \* an exception left a socket listener uncaught
    \* ---- MX resolver (validators/mx.ts) ----
    mxConfig,      \* fields of the MXValidator: retries, fallbackToA
    mxPc,          \* the await at which validate / performDNSLookup stands
    mxAttempt,     \* loop variable `attempt` of the running retry loop
    mxLastError,   \* message of `lastError` of the running retry loop
    mxError,       \* message of the `error` caught from resolveMXWithRetry
    mxRecords,     \* local `mxRecords` of performDNSLookup
    aRecords,      \* local `aRecords` of performDNSLookup
    dnsLog,        \* the resolveMx / resolve4 calls and sleeps made so far
    mxResult       \* the ValidatorResult returned by validate(), or NoResult

pipeVars == <<config, ctxEmail, stage, ctxResults, invoked, pending, final>>

bulkVars == <<emails, opts, rateLimiter, now, procPc, batchStart, tasks, results,
              completed, validCount, invalidCount, errorCount, progress,
              validateCalls, ret>>

smtpVars == <<smtpConfig, smtpPc, io, attempt, socket, tlsUsed, buffer, wire,
              awaiting, sent, heloResponse, caught, lastError, lastResult, lastSleep,
              connections, smtpResult, uncaught>>

mxVars == <<mxConfig, mxPc, mxAttempt, mxLastError, mxError, mxRecords, aRecords,
            dnsLog, mxResult>>

vars == <<pipeVars, bulkVars, smtpVars, mxVars>>

notPipe == <<bulkVars, smtpVars, mxVars>>
notBulk == <<pipeVars, smtpVars, mxVars>>
notSmtp == <<pipeVars, bulkVars, mxVars>>
notMx == <<pipeVars, bulkVars, smtpVars>>

NoResult == [none |-> TRUE]
NoReason == "undefined"
Null == [null |-> TRUE]

----------------------------------------------------------------------------
(* Email addresses are sequences of atoms; the atom "@" is the separator.  *)

EmailA == <<"a", "@", "x.com">>
EmailB == <<"b", "@", "X.COM">>
EmailC == <<"c", "@", "y.org">>
\* An address at a known disposable domain.
EmailD == <<"x", "@", "mailinator.com">>
EmailSet == {EmailA, EmailB, EmailC, EmailD}

----------------------------------------------------------------------------
(* Orchestrator: fixed validator order and the outcomes a validator can    *)
(* hand back.                                                              *)

validatorOrder == <<"regex", "typo", "disposable", "mx", "smtp">>

Names == {validatorOrder[i] : i \in 1..Len(validatorOrder)}

Passed(name) == [name |-> name, valid |-> TRUE, code |-> "none", severity |-> "none"]

Failed(name, code, severity) ==
    [name |-> name, valid |-> FALSE, code |-> code, severity |-> severity]

\* RegexValidator.validate: passes or fails with REGEX_INVALID_FORMAT.
RegexOutcomes ==
    {Passed("regex"), Failed("regex", "REGEX_INVALID_FORMAT", "error")}

\* TypoValidator.validate: no suggestion (or one below the threshold) passes;
\* a suggestion is returned as valid=false with severity 'warning'; the
\* ValidationError thrown for a missing domain goes through handleError and
\* keeps the constructor's default severity 'error'.
TypoOutcomes ==
    {Passed("typo"),
     Failed("typo", "TYPO_DETECTED", "warning"),
     Failed("typo", "TYPO_DETECTED", "error")}

\* DisposableValidator.validate
DisposableOutcomes ==
    {Passed("disposable"), Failed("disposable", "DISPOSABLE_DOMAIN", "error")}

\* MXValidator.validate: every failure is converted to an error result.
MXOutcomes ==
    {Passed("mx"),
     Failed("mx", "MX_NOT_FOUND", "error"),
     Failed("mx", "MX_LOOKUP_FAILED", "error"),
     Failed("mx", "NETWORK_ERROR", "error")}

\* SMTPValidator.validate: every failure is converted to an error result.
SMTPOutcomes ==
    {Passed("smtp"),
     Failed("smtp", "MX_NOT_FOUND", "error"),
     Failed("smtp", "SMTP_MAILBOX_NOT_FOUND", "error"),
     Failed("smtp", "SMTP_CONNECTION_FAILED", "error"),
     Failed("smtp", "SMTP_TIMEOUT", "error"),
     Failed("smtp", "NETWORK_ERROR", "error")}

ValidatorOutcomes(name) ==
    CASE name = "regex"      -> RegexOutcomes
      [] name = "typo"       -> TypoOutcomes
      [] name = "disposable" -> DisposableOutcomes
      [] name = "mx"         -> MXOutcomes
      [] name = "smtp"       -> SMTPOutcomes

\* Mutation of ThrownOutcome: the stored error has severity 'warning'.
ThrownOutcomeWarning(name) == Failed(name, "VALIDATION_ERROR", "warning")

\* The result the orchestrator stores when validate() throws (catch branch).
ThrownOutcome(name) == Failed(name, "VALIDATION_ERROR", "error")

\* Mutation of MailinatorOutcomes: the typo stage flags the address.
MailinatorOutcomesTypo(name) ==
    CASE name = "regex"      -> {Passed("regex")}
      [] name = "typo"       -> {Failed("typo", "TYPO_DETECTED", "warning")}
      [] name = "disposable" -> {Failed("disposable", "DISPOSABLE_DOMAIN", "error")}
      [] OTHER               -> ValidatorOutcomes(name)

\* What the validators hand back for x@mailinator.com: the address is well
\* formed, no popular domain is within the typo threshold of mailinator.com
\* (the closest, mail.com, has similarity 0.57 < 0.7), and the domain is a
\* known disposable one; the network stages answer as for any address.
MailinatorOutcomes(name) ==
    CASE name = "regex"      -> {Passed("regex")}
      [] name = "typo"       -> {Passed("typo")}
      [] name = "disposable" -> {Failed("disposable", "DISPOSABLE_DOMAIN", "error")}
      [] OTHER               -> ValidatorOutcomes(name)

\* Mutation of IsEnabled: every validator counts as enabled.
IsEnabledAlways(cfg, name) == TRUE

\* createValidators + isEnabled: a validator exists and runs iff enabled.
IsEnabled(cfg, name) == name \in cfg.enabled

\* Mutation of ShouldEarlyExit: the break is never taken.
ShouldEarlyExitNever(cfg, outcome) == FALSE

\* `if (config.earlyExit && !result.valid) break;`
ShouldEarlyExit(cfg, outcome) == cfg.earlyExit /\ ~outcome.valid

LoopEnd == Len(validatorOrder) + 1

----------------------------------------------------------------------------
(* ResultFormatter                                                         *)

Lookup(res, name) ==
    LET idx == {i \in 1..Len(res) : res[i].name = name}
    IN  IF idx = {} THEN NoResult ELSE res[CHOOSE i \in idx : TRUE]

HasPassed(res, name) ==
    \E i \in 1..Len(res) : res[i].name = name /\ res[i].valid

Min(a, b) == IF a < b THEN a ELSE b
Max(a, b) == IF a > b THEN a ELSE b

\* Mutation of calculateScore: a stage scores as soon as it is present in
\* the results, passed or not.
calculateScorePresent(res) ==
    LET pts(name, w) == IF \E i \in 1..Len(res) : res[i].name = name THEN w ELSE 0
    IN  Min(100, pts("regex", 20) + pts("typo", 10) + pts("disposable", 20)
                 + pts("mx", 20) + pts("smtp", 30))

\* calculateScore: fixed weights for the validators present with valid=true.
calculateScore(res) ==
    LET pts(name, w) == IF HasPassed(res, name) THEN w ELSE 0
        score == pts("regex", 20) + pts("typo", 10) + pts("disposable", 20)
                 + pts("mx", 20) + pts("smtp", 30)
    IN  Min(100, Max(0, score))

\* Mutation of IsTypoWarning: no outcome is exempted.
IsTypoWarningNone(r) == FALSE

\* `validatorName === 'typo' && result.error?.severity === 'warning'`
IsTypoWarning(r) == r.name = "typo" /\ r.severity = "warning"

\* Mutation of KeepFirstReason: the reason is overwritten by each failure.
KeepLastReason(reason, name) == name

\* `if (!reason) reason = validatorName`
KeepFirstReason(reason, name) == IF reason = NoReason THEN name ELSE reason

\* The loop of format() over Object.entries(results), from entry i on,
\* carrying the running <<valid, reason>>.
RECURSIVE FormatLoop(_, _, _, _)
FormatLoop(res, i, valid, reason) ==
    IF i > Len(res) THEN <<valid, reason>>
    ELSE LET r == res[i]
         IN  IF ~r.valid /\ ~IsTypoWarning(r)
             THEN FormatLoop(res, i + 1, FALSE, KeepFirstReason(reason, r.name))
             ELSE FormatLoop(res, i + 1, valid, reason)

format(email, res) ==
    LET vr == FormatLoop(res, 1, TRUE, NoReason)
    IN  [none       |-> FALSE,
         valid      |-> vr[1],
         email      |-> email,
         score      |-> calculateScore(res),
         reason     |-> vr[2],
         validators |-> {res[i].name : i \in 1..Len(res)}]

----------------------------------------------------------------------------
(* One pipeline run                                                        *)

Configs == [enabled : SUBSET Names, earlyExit : BOOLEAN]

\* The configuration merged from no user options: smtp is off and the run
\* does not exit early.
defaultConfig ==
    [enabled |-> {"regex", "typo", "disposable", "mx"}, earlyExit |-> FALSE]

\* The other default the repository carries: every validator on, early exit.
defaultConfigStrict == [enabled |-> Names, earlyExit |-> TRUE]

InitPipe ==
    /\ config \in Configs
    /\ ctxEmail \in EmailSet
    /\ stage = 1
    /\ ctxResults = <<>>
    /\ invoked = <<>>
    /\ pending = {}
    /\ final = NoResult

\* Loop iteration for a validator that is disabled: `continue`.
SkipValidator ==
    /\ final = NoResult
    /\ stage < LoopEnd
    /\ pending = {}
    /\ ~IsEnabled(config, validatorOrder[stage])
    /\ stage' = stage + 1
    /\ UNCHANGED <<config, ctxEmail, ctxResults, invoked, pending, final>>
    /\ UNCHANGED notPipe

\* Loop iteration for an enabled validator, up to the `await`:
\* validator.validate(email) is called and the loop is suspended on its
\* promise.
CallValidator ==
    /\ final = NoResult
    /\ stage < LoopEnd
    /\ pending = {}
    /\ IsEnabled(config, validatorOrder[stage])
    /\ invoked' = Append(invoked, validatorOrder[stage])
    /\ pending' = pending \cup {validatorOrder[stage]}
    /\ UNCHANGED <<config, ctxEmail, stage, ctxResults, final>>
    /\ UNCHANGED notPipe

\* The awaited validate() returns a result: store it, then check for early
\* exit.
RunValidator ==
    /\ final = NoResult
    /\ stage < LoopEnd
    /\ validatorOrder[stage] \in pending
    /\ \E outcome \in IF ctxEmail = EmailD
                      THEN MailinatorOutcomes(validatorOrder[stage])
                      ELSE ValidatorOutcomes(validatorOrder[stage]) :
          /\ ctxResults' = Append(ctxResults, outcome)
          /\ stage' = IF ShouldEarlyExit(config, outcome) THEN LoopEnd ELSE stage + 1
    /\ pending' = pending \ {validatorOrder[stage]}
    /\ UNCHANGED <<config, ctxEmail, invoked, final>>
    /\ UNCHANGED notPipe

\* The awaited validate() throws: the catch branch stores an error result
\* and breaks if earlyExit is configured.
ValidatorThrows ==
    /\ final = NoResult
    /\ stage < LoopEnd
    /\ validatorOrder[stage] \in pending
    /\ ctxResults' = Append(ctxResults, ThrownOutcome(validatorOrder[stage]))
    /\ stage' = IF config.earlyExit THEN LoopEnd ELSE stage + 1
    /\ pending' = pending \ {validatorOrder[stage]}
    /\ UNCHANGED <<config, ctxEmail, invoked, final>>
    /\ UNCHANGED notPipe

\* `return this.formatter.format(context)`
FormatResult ==
    /\ final = NoResult
    /\ stage = LoopEnd
    /\ final' = format(ctxEmail, ctxResults)
    /\ UNCHANGED <<config, ctxEmail, stage, ctxResults, invoked, pending>>
    /\ UNCHANGED notPipe

NextPipe ==
    \/ SkipValidator
    \/ CallValidator
    \/ RunValidator
    \/ ValidatorThrows
    \/ FormatResult

----------------------------------------------------------------------------
(* RateLimiter (token bucket).  Token counts are kept exactly: a bucket's  *)
(* `tokens` field holds tokens * window * 1000, so that one millisecond of *)
(* refill adds `capacity` units and one token is window * 1000 units.      *)

\* String.prototype.toLowerCase on the atoms used here.
toLowerCase(atom) ==
    CASE atom = "X.COM"    -> "x.com"
      [] atom = "STARTTLS" -> "starttls"
      [] OTHER             -> atom

IndexOf(s, sep) ==
    IF \E k \in 1..Len(s) : s[k] = sep
    THEN CHOOSE k \in 1..Len(s) : s[k] = sep /\ \A j \in 1..(k - 1) : s[j] # sep
    ELSE 0

\* String.prototype.split(sep): the segments between the separators.
RECURSIVE split(_, _)
split(s, sep) ==
    LET k == IndexOf(s, sep)
    IN  IF k = 0 THEN <<s>>
        ELSE <<SubSeq(s, 1, k - 1)>> \o split(SubSeq(s, k + 1, Len(s)), sep)

\* The `null` returned by extractDomain (a domain is never the empty string).
NoDomain == <<>>

\* RateLimiter.extractDomain: null unless there is exactly one "@" and a
\* non-empty right-hand side; the domain is lowercased.
extractDomain(email) ==
    LET parts == split(email, "@")
    IN  IF Len(parts) # 2 THEN NoDomain
        ELSE IF parts[2] = <<>> THEN NoDomain
        ELSE [k \in 1..Len(parts[2]) |-> toLowerCase(parts[2][k])]

TokenUnit(bucket) == bucket.window * 1000

\* RateLimiter.createBucket
createBucket(capacity, window, t) ==
    [tokens |-> capacity * window * 1000, capacity |-> capacity,
     lastRefill |-> t, window |-> window]

\* Mutation of refillBucket: the refill is not capped at the capacity.
refillBucketUncapped(bucket, t) ==
    IF t - bucket.lastRefill <= 0 THEN bucket
    ELSE [bucket EXCEPT !.tokens = bucket.tokens + (t - bucket.lastRefill) * bucket.capacity,
                        !.lastRefill = t]

\* RateLimiter.refillBucket
refillBucket(bucket, t) ==
    LET elapsedMs == t - bucket.lastRefill
    IN  IF elapsedMs <= 0 THEN bucket
        ELSE [bucket EXCEPT
                !.tokens = Min(bucket.capacity * TokenUnit(bucket),
                               bucket.tokens + elapsedMs * bucket.capacity),
                !.lastRefill = t]

\* Math.ceil((1 - tokens) / refillRate), in seconds
waitTime(bucket) ==
    LET missing == TokenUnit(bucket) - bucket.tokens
        perSec  == bucket.capacity * 1000
    IN  (missing + perSec - 1) \div perSec

\* new RateLimiter(options)
newRateLimiter(options, t) ==
    [enabled          |-> options.enabled,
     globalBucket     |-> IF options.global = Null THEN Null
                          ELSE createBucket(options.global.requests,
                                            options.global.window, t),
     perDomainConfig  |-> options.perDomain,
     perDomainBuckets |-> <<>>]

HasDomainBucket(lim, domain) ==
    \E k \in 1..Len(lim.perDomainBuckets) : lim.perDomainBuckets[k].domain = domain

DomainBucketIndex(lim, domain) ==
    CHOOSE k \in 1..Len(lim.perDomainBuckets) : lim.perDomainBuckets[k].domain = domain

\* RateLimiter.getDomainBucket: the limiter after the lazy creation of the
\* bucket of `domain` (perDomainConfig is known to be set).
getDomainBucket(lim, domain, t) ==
    IF HasDomainBucket(lim, domain) THEN lim
    ELSE [lim EXCEPT !.perDomainBuckets =
            Append(@, [domain |-> domain,
                       bucket |-> createBucket(lim.perDomainConfig.requests,
                                               lim.perDomainConfig.window, t)])]

CheckAllowed(lim) ==
    [lim |-> lim, allowed |-> TRUE, waitTime |-> 0, type |-> "none"]

CheckDenied(lim, type, wait) ==
    [lim |-> lim, allowed |-> FALSE, waitTime |-> wait, type |-> type]

\* The per-domain half of RateLimiter.check.
checkDomain(lim, domain, t) ==
    IF lim.perDomainConfig = Null THEN CheckAllowed(lim)
    ELSE LET lim1 == getDomainBucket(lim, domain, t)
             k    == DomainBucketIndex(lim1, domain)
             b    == refillBucket(lim1.perDomainBuckets[k].bucket, t)
             lim2 == [lim1 EXCEPT !.perDomainBuckets[k].bucket = b]
         IN  IF b.tokens < TokenUnit(b)
             THEN CheckDenied(lim2, "per-domain", waitTime(b))
             ELSE CheckAllowed([lim2 EXCEPT !.perDomainBuckets[k].bucket.tokens =
                                              @ - TokenUnit(b)])

\* Mutation of check: the per-domain bucket is consulted before the global
\* bucket.
checkDomainFirst(lim, email, t) ==
    IF ~lim.enabled THEN CheckAllowed(lim)
    ELSE IF extractDomain(email) = NoDomain THEN CheckAllowed(lim)
    ELSE LET d == checkDomain(lim, extractDomain(email), t)
         IN  IF ~d.allowed \/ lim.globalBucket = Null THEN d
             ELSE IF refillBucket(lim.globalBucket, t).tokens < TokenUnit(lim.globalBucket)
             THEN CheckDenied([d.lim EXCEPT !.globalBucket = refillBucket(@, t)],
                              "global", waitTime(refillBucket(lim.globalBucket, t)))
             ELSE CheckAllowed([d.lim EXCEPT !.globalBucket =
                     [refillBucket(@, t) EXCEPT !.tokens = @ - TokenUnit(lim.globalBucket)]])

\* Mutation of check: a denial by the per-domain bucket gives the global
\* token back.
checkRefunds(lim, email, t) ==
    IF ~lim.enabled THEN CheckAllowed(lim)
    ELSE IF extractDomain(email) = NoDomain THEN CheckAllowed(lim)
    ELSE IF lim.globalBucket = Null THEN checkDomain(lim, extractDomain(email), t)
    ELSE IF refillBucket(lim.globalBucket, t).tokens < TokenUnit(lim.globalBucket)
    THEN CheckDenied([lim EXCEPT !.globalBucket = refillBucket(@, t)],
                     "global", waitTime(refillBucket(lim.globalBucket, t)))
    ELSE LET d == checkDomain([lim EXCEPT !.globalBucket = refillBucket(@, t)],
                              extractDomain(email), t)
         IN  IF d.allowed
             THEN [d EXCEPT !.lim.globalBucket.tokens = @ - TokenUnit(lim.globalBucket)]
             ELSE d

\* Mutation of check: the global bucket is charged before the limiter looks
\* at `enabled` and at the domain.
checkChargesFirst(lim, email, t) ==
    LET charged == IF lim.globalBucket = Null THEN lim
                   ELSE [lim EXCEPT !.globalBucket.tokens =
                            IF @ >= TokenUnit(lim.globalBucket)
                            THEN @ - TokenUnit(lim.globalBucket) ELSE @]
    IN  IF ~lim.enabled THEN CheckAllowed(charged)
        ELSE IF extractDomain(email) = NoDomain THEN CheckAllowed(charged)
        ELSE checkDomain(charged, extractDomain(email), t)

\* RateLimiter.check: the limiter after the check and the answer.
check(lim, email, t) ==
    IF ~lim.enabled THEN CheckAllowed(lim)
    ELSE LET domain == extractDomain(email)
         IN  IF domain = NoDomain THEN CheckAllowed(lim)
             ELSE IF lim.globalBucket = Null THEN checkDomain(lim, domain, t)
             ELSE LET g == refillBucket(lim.globalBucket, t)
                  IN  IF g.tokens < TokenUnit(g)
                      THEN CheckDenied([lim EXCEPT !.globalBucket = g],
                                       "global", waitTime(g))
                      ELSE checkDomain(
                             [lim EXCEPT !.globalBucket =
                                [g EXCEPT !.tokens = @ - TokenUnit(g)]],
                             domain, t)

\* RateLimiter.reset
reset(lim, t) ==
    [lim EXCEPT !.perDomainBuckets = <<>>,
                !.globalBucket =
                   IF @ = Null THEN Null
                   ELSE [@ EXCEPT !.tokens = lim.globalBucket.capacity
                                               * TokenUnit(lim.globalBucket),
                                  !.lastRefill = t]]

----------------------------------------------------------------------------
(* BulkProcessor.process                                                   *)

MaxEmails == 3
MaxConcurrency == 2
MaxTicks == 1
TickMs == 500

\* A non-array `emails` argument (Array.isArray is false): the string
\* 'not-an-array', kept apart from every list of addresses.
NotArray == <<<<"not-an-array">>>>
Hole == [hole |-> TRUE]
NoReturn == [pending |-> TRUE]

\* The `emails` arguments exercised: up to MaxEmails addresses, drawn either
\* from two addresses of one domain (written in different case) or from two
\* addresses of different domains.
EmailPairs == {{EmailA, EmailB}, {EmailB, EmailC}}

EmailLists == UNION {[1..n -> pair] : n \in 0..MaxEmails, pair \in EmailPairs}

\* The rateLimit options exercised (requests per window seconds).
RateLimitOptions ==
    {Null,
     [global |-> [requests |-> 1, window |-> 1], perDomain |-> Null, enabled |-> TRUE],
     [global |-> [requests |-> 2, window |-> 1], perDomain |-> Null, enabled |-> TRUE],
     [global |-> Null, perDomain |-> [requests |-> 1, window |-> 1], enabled |-> TRUE],
     [global |-> [requests |-> 2, window |-> 1],
      perDomain |-> [requests |-> 1, window |-> 1], enabled |-> TRUE],
     [global |-> [requests |-> 1, window |-> 1], perDomain |-> Null, enabled |-> FALSE]}

BulkOptions ==
    [concurrency : 0..MaxConcurrency, continueOnError : BOOLEAN,
     onProgress : BOOLEAN, rateLimit : RateLimitOptions]

\* What `await validate(email, config)` can resolve to: the formatted result
\* of a run that passed, or of a run that failed.
PipelineResults(email) ==
    {format(email, <<Passed("regex")>>),
     format(email, <<Failed("regex", "REGEX_INVALID_FORMAT", "error")>>)}

\* Mutation of RateLimitResult: the denial is reported as a generic error.
RateLimitResultCustom(email) ==
    [none |-> FALSE, valid |-> FALSE, email |-> email, score |-> 0,
     reason |-> "custom", validators |-> {}]

\* The entry built in the rate-limit branch.
RateLimitResult(email) ==
    [none |-> FALSE, valid |-> FALSE, email |-> email, score |-> 0,
     reason |-> "rate-limit", validators |-> {}]

\* The entry built in the catch branch.
ErrorResult(email) ==
    [none |-> FALSE, valid |-> FALSE, email |-> email, score |-> 0,
     reason |-> "custom", validators |-> {}]

\* Mutation of StoreAt: results.push(r).
StorePush(arr, idx, r) == Append(arr, r)

\* `results[globalIndex] = r` on a JavaScript array: the array grows to the
\* index, leaving holes.
StoreAt(arr, idx, r) ==
    [k \in 1..Max(Len(arr), idx) |->
        IF k = idx THEN r ELSE IF k <= Len(arr) THEN arr[k] ELSE Hole]

\* Mutation of CountInvalid: an invalid address is counted twice.
CountInvalidTwice(counts) == [counts EXCEPT !.invalid = @ + 2]

\* Mutation of CountInvalid: the rate-limit branch counts an error instead.
CountInvalidAsError(counts) == [counts EXCEPT !.errors = @ + 1]

\* `invalidCount++` of the rate-limit branch and of a failed validation.
CountInvalid(counts) == [counts EXCEPT !.invalid = @ + 1]

Counts == [valid |-> validCount, invalid |-> invalidCount, errors |-> errorCount]

\* `if (onProgress) onProgress(completed, emails.length)`
onProgress(log, g, done) ==
    IF opts.onProgress
    THEN Append(log, [completed |-> done, total |-> Len(emails), index |-> g])
    ELSE log

NewTask == [st |-> "new", allowed |-> TRUE, threw |-> FALSE]

BatchEnd == Min(batchStart + opts.concurrency - 1, Len(emails))
Batch == batchStart..BatchEnd
Settled(g) == tasks[g].st \in {"fulfilled", "rejected"}

\* The checks of the positions g down to first, issued last position first.
RECURSIVE RunDown(_, _, _, _)
RunDown(g, first, lim, ts) ==
    IF g < first THEN [lim |-> lim, tasks |-> ts]
    ELSE LET c == check(lim, emails[g], now)
         IN  RunDown(g - 1, first, c.lim,
                [ts EXCEPT ![g].st = "checked", ![g].allowed = c.allowed])

\* Mutation of RunPrefixes: the members of a batch are started in reverse
\* input order.
RunPrefixesReversed(g, last, lim, ts, calls) ==
    IF lim # Null
    THEN [lim |-> RunDown(last, g, lim, ts).lim,
          tasks |-> RunDown(last, g, lim, ts).tasks,
          calls |-> calls]
    ELSE [lim |-> lim,
          tasks |-> [k \in DOMAIN ts |->
                       IF k \in g..last THEN [ts[k] EXCEPT !.st = "validating"]
                       ELSE ts[k]],
          calls |-> calls \o [k \in 1..(last - g + 1) |-> last - k + 1]]

\* Mutation of RunPrefixes: every check of a batch reads the limiter as it
\* was when the batch started and its token consumption is lost.
RunPrefixesStale(g, last, lim, ts, calls) ==
    [lim   |-> lim,
     tasks |-> [k \in DOMAIN ts |->
                  IF k \in g..last
                  THEN IF lim # Null
                       THEN [ts[k] EXCEPT !.st = "checked",
                                          !.allowed = check(lim, emails[k], now).allowed]
                       ELSE [ts[k] EXCEPT !.st = "validating"]
                  ELSE ts[k]],
     calls |-> IF lim # Null THEN calls
               ELSE calls \o [k \in 1..(last - g + 1) |-> g + k - 1]]

\* The synchronous prefix of every batch member, run in index order by
\* batch.map: the admission check when a limiter is installed, otherwise the
\* call of validate().
RECURSIVE RunPrefixes(_, _, _, _, _)
RunPrefixes(g, last, lim, ts, calls) ==
    IF g > last THEN [lim |-> lim, tasks |-> ts, calls |-> calls]
    ELSE IF lim # Null
         THEN LET c == check(lim, emails[g], now)
              IN  RunPrefixes(g + 1, last, c.lim,
                     [ts EXCEPT ![g].st = "checked", ![g].allowed = c.allowed],
                     calls)
         ELSE RunPrefixes(g + 1, last, lim,
                     [ts EXCEPT ![g].st = "validating"],
                     Append(calls, g))

BulkIdle ==
    /\ emails = <<>>
    /\ opts = [concurrency |-> 1, continueOnError |-> TRUE, onProgress |-> FALSE,
               rateLimit |-> Null]
    /\ rateLimiter = Null
    /\ now = 0
    /\ procPc = "idle"
    /\ batchStart = 1
    /\ tasks = <<>>
    /\ results = <<>>
    /\ completed = 0
    /\ validCount = 0
    /\ invalidCount = 0
    /\ errorCount = 0
    /\ progress = <<>>
    /\ validateCalls = <<>>
    /\ ret = NoReturn

\* new BulkProcessor()
InitBulk == BulkIdle

\* Mutation of ProcessCall: the concurrency is validated before the empty
\* list is looked at.
ProcessCallRangeFirst ==
    /\ procPc = "idle"
    /\ \E isArray \in BOOLEAN, o \in BulkOptions :
       \E es \in IF isArray THEN EmailLists ELSE {NotArray} :
          /\ emails' = es
          /\ opts' = o
          /\ rateLimiter' = IF o.rateLimit # Null
                            THEN newRateLimiter(o.rateLimit, now)
                            ELSE rateLimiter
          /\ IF ~isArray
             THEN /\ procPc' = "rejected"
                  /\ ret' = [error |-> "TypeError"]
                  /\ tasks' = <<>>
             ELSE IF o.concurrency < 1
             THEN /\ procPc' = "rejected"
                  /\ ret' = [error |-> "RangeError"]
                  /\ tasks' = <<>>
             ELSE IF Len(es) = 0
             THEN /\ procPc' = "returned"
                  /\ ret' = [results |-> <<>>, total |-> 0, valid |-> 0,
                             invalid |-> 0, errors |-> 0]
                  /\ tasks' = <<>>
             ELSE /\ procPc' = "loop"
                  /\ ret' = NoReturn
                  /\ tasks' = [g \in 1..Len(es) |-> NewTask]
    /\ UNCHANGED <<now, batchStart, results, completed, validCount, invalidCount,
                   errorCount, progress, validateCalls>>
    /\ UNCHANGED notBulk

\* process(emails, options) up to the batch loop: install the limiter, then
\* validate the inputs.
ProcessCall ==
    /\ procPc = "idle"
    /\ \E isArray \in BOOLEAN, o \in BulkOptions :
       \E es \in IF isArray THEN EmailLists ELSE {NotArray} :
          /\ emails' = es
          /\ opts' = o
          /\ rateLimiter' = IF o.rateLimit # Null
                            THEN newRateLimiter(o.rateLimit, now)
                            ELSE rateLimiter
          /\ IF ~isArray
             THEN /\ procPc' = "rejected"
                  /\ ret' = [error |-> "TypeError"]
                  /\ tasks' = <<>>
             ELSE IF Len(es) = 0
             THEN /\ procPc' = "returned"
                  /\ ret' = [results |-> <<>>, total |-> 0, valid |-> 0,
                             invalid |-> 0, errors |-> 0]
                  /\ tasks' = <<>>
             ELSE IF o.concurrency < 1
             THEN /\ procPc' = "rejected"
                  /\ ret' = [error |-> "RangeError"]
                  /\ tasks' = <<>>
             ELSE /\ procPc' = "loop"
                  /\ ret' = NoReturn
                  /\ tasks' = [g \in 1..Len(es) |-> NewTask]
    /\ UNCHANGED <<now, batchStart, results, completed, validCount, invalidCount,
                   errorCount, progress, validateCalls>>
    /\ UNCHANGED notBulk

\* One iteration of the batch loop up to its await: slice the batch and start
\* every member.
StartBatch ==
    /\ procPc = "loop"
    /\ batchStart <= Len(emails)
    /\ LET r == RunPrefixes(batchStart, BatchEnd, rateLimiter, tasks, validateCalls)
       IN  /\ rateLimiter' = r.lim
           /\ tasks' = r.tasks
           /\ validateCalls' = r.calls
    /\ procPc' = "waiting"
    /\ UNCHANGED <<emails, opts, now, batchStart, results, completed, validCount,
                   invalidCount, errorCount, progress, ret>>
    /\ UNCHANGED notBulk

\* Continuations after `await this.rateLimiter.check(email)` run in the order
\* the checks were issued.
NextChecked(g) ==
    /\ g \in DOMAIN tasks
    /\ tasks[g].st = "checked"
    /\ \A h \in 1..(g - 1) : tasks[h].st # "checked"

NoneChecked == \A g \in DOMAIN tasks : tasks[g].st # "checked"

\* The check allowed the address: validate() is called.
Admitted(g) ==
    /\ NextChecked(g)
    /\ tasks[g].allowed
    /\ tasks' = [tasks EXCEPT ![g].st = "validating"]
    /\ validateCalls' = Append(validateCalls, g)
    /\ UNCHANGED <<emails, opts, rateLimiter, now, procPc, batchStart, results,
                   completed, validCount, invalidCount, errorCount, progress, ret>>
    /\ UNCHANGED notBulk

\* The check denied the address: the rate-limit branch stores its entry and
\* reports progress, then returns it (continueOnError) or throws.  The throw
\* is raised inside the try block, so the catch branch runs as well.
RateLimited(g) ==
    /\ NextChecked(g)
    /\ ~tasks[g].allowed
    /\ LET res1  == StoreAt(results, g, RateLimitResult(emails[g]))
           cnt1  == CountInvalid(Counts)
           log1  == onProgress(progress, g, completed + 1)
       IN  IF opts.continueOnError
           THEN /\ results' = res1
                /\ validCount' = cnt1.valid
                /\ invalidCount' = cnt1.invalid
                /\ errorCount' = cnt1.errors
                /\ completed' = completed + 1
                /\ progress' = log1
                /\ tasks' = [tasks EXCEPT ![g].st = "fulfilled"]
           ELSE /\ results' = StoreAt(res1, g, ErrorResult(emails[g]))
                /\ validCount' = cnt1.valid
                /\ invalidCount' = cnt1.invalid
                /\ errorCount' = cnt1.errors + 1
                /\ completed' = completed + 2
                /\ progress' = onProgress(log1, g, completed + 2)
                /\ tasks' = [tasks EXCEPT ![g].st = "rejected"]
    /\ UNCHANGED <<emails, opts, rateLimiter, now, procPc, batchStart,
                   validateCalls, ret>>
    /\ UNCHANGED notBulk

\* validate() resolves: store the result, count it, report progress.
ValidateReturns(g) ==
    /\ g \in DOMAIN tasks
    /\ tasks[g].st = "validating"
    /\ NoneChecked
    /\ \E r \in PipelineResults(emails[g]) :
          LET cnt == IF r.valid THEN [Counts EXCEPT !.valid = @ + 1]
                     ELSE CountInvalid(Counts)
          IN  /\ results' = StoreAt(results, g, r)
              /\ validCount' = cnt.valid
              /\ invalidCount' = cnt.invalid
              /\ errorCount' = cnt.errors
    /\ completed' = completed + 1
    /\ progress' = onProgress(progress, g, completed + 1)
    /\ tasks' = [tasks EXCEPT ![g].st = "fulfilled"]
    /\ UNCHANGED <<emails, opts, rateLimiter, now, procPc, batchStart,
                   validateCalls, ret>>
    /\ UNCHANGED notBulk

\* validate() rejects: the catch branch counts an error, stores the error
\* entry, reports progress, then returns (continueOnError) or rethrows.
ValidateThrows(g) ==
    /\ g \in DOMAIN tasks
    /\ tasks[g].st = "validating"
    /\ NoneChecked
    /\ errorCount' = errorCount + 1
    /\ results' = StoreAt(results, g, ErrorResult(emails[g]))
    /\ completed' = completed + 1
    /\ progress' = onProgress(progress, g, completed + 1)
    /\ tasks' = [tasks EXCEPT ![g].threw = TRUE,
                                ![g].st = IF opts.continueOnError THEN "fulfilled"
                                          ELSE "rejected"]
    /\ UNCHANGED <<emails, opts, rateLimiter, now, procPc, batchStart, validCount,
                   invalidCount, validateCalls, ret>>
    /\ UNCHANGED notBulk

\* Mutation of BatchWaitOver: the wait ends with the first settled member.
BatchWaitOverAny(coe) == \E g \in Batch : Settled(g)

\* The batch wait is over: Promise.allSettled resolves when every member has
\* settled, Promise.all resolves when every member has fulfilled.
BatchWaitOver(coe) ==
    IF coe THEN \A g \in Batch : Settled(g)
    ELSE \A g \in Batch : tasks[g].st = "fulfilled"

\* `i += concurrency` after the await.
BatchDone ==
    /\ procPc = "waiting"
    /\ NoneChecked
    /\ BatchWaitOver(opts.continueOnError)
    /\ batchStart' = batchStart + opts.concurrency
    /\ procPc' = "loop"
    /\ UNCHANGED <<emails, opts, rateLimiter, now, tasks, results, completed,
                   validCount, invalidCount, errorCount, progress, validateCalls, ret>>
    /\ UNCHANGED notBulk

\* Mutation of RejectionObserved: the rejection is raised only after the
\* whole batch has settled.
RejectionObservedAfterSettle(coe) ==
    /\ ~coe
    /\ \E g \in Batch : tasks[g].st = "rejected"
    /\ \A g \in Batch : Settled(g)

\* Promise.all (used when continueOnError is false) rejects as soon as one
\* member has rejected; Promise.allSettled never rejects.
RejectionObserved(coe) == ~coe /\ \E g \in Batch : tasks[g].st = "rejected"

\* The await of Promise.all throws and process() rejects; members still in
\* flight keep running.
ProcessRejects ==
    /\ procPc = "waiting"
    /\ NoneChecked
    /\ RejectionObserved(opts.continueOnError)
    /\ procPc' = "rejected"
    /\ ret' = [error |-> "Error"]
    /\ UNCHANGED <<emails, opts, rateLimiter, now, batchStart, tasks, results,
                   completed, validCount, invalidCount, errorCount, progress,
                   validateCalls>>
    /\ UNCHANGED notBulk

\* The loop has ended: return the tallies.
ProcessReturns ==
    /\ procPc = "loop"
    /\ batchStart > Len(emails)
    /\ procPc' = "returned"
    /\ ret' = [results |-> results, total |-> Len(emails), valid |-> validCount,
               invalid |-> invalidCount, errors |-> errorCount]
    /\ UNCHANGED <<emails, opts, rateLimiter, now, batchStart, tasks, results,
                   completed, validCount, invalidCount, errorCount, progress,
                   validateCalls>>
    /\ UNCHANGED notBulk

\* Time passes while validations are in flight.
Tick ==
    /\ \E g \in DOMAIN tasks : tasks[g].st = "validating"
    /\ NoneChecked
    /\ now < MaxTicks * TickMs
    /\ now' = now + TickMs
    /\ UNCHANGED <<emails, opts, rateLimiter, procPc, batchStart, tasks, results,
                   completed, validCount, invalidCount, errorCount, progress,
                   validateCalls, ret>>
    /\ UNCHANGED notBulk

NextBulk ==
    \/ ProcessCall
    \/ StartBatch
    \/ \E g \in 1..MaxEmails + 1 : Admitted(g)
    \/ \E g \in 1..MaxEmails + 1 : RateLimited(g)
    \/ \E g \in 1..MaxEmails + 1 : ValidateReturns(g)
    \/ \E g \in 1..MaxEmails + 1 : ValidateThrows(g)
    \/ BatchDone
    \/ ProcessRejects
    \/ ProcessReturns
    \/ Tick

\* The arguments of a further process call on the same BulkProcessor: one
\* address, one address per batch, and either the rateLimit option of the
\* previous call again or none.
AgainOptions ==
    [concurrency : {1}, continueOnError : {TRUE}, onProgress : {FALSE},
     rateLimit : {Null, opts.rateLimit}]

\* Mutation of ProcessAgain: a call that passes no rateLimit option runs
\* without a limiter.
ProcessAgainDetached ==
    /\ procPc \in {"returned", "rejected"}
    /\ \A g \in DOMAIN tasks : Settled(g)
    /\ \E o \in AgainOptions :
          /\ emails' = <<EmailA>>
          /\ opts' = o
          /\ rateLimiter' = IF o.rateLimit # Null
                            THEN newRateLimiter(o.rateLimit, now)
                            ELSE Null
    /\ procPc' = "loop"
    /\ ret' = NoReturn
    /\ tasks' = <<NewTask>>
    /\ batchStart' = 1
    /\ results' = <<>>
    /\ completed' = 0
    /\ validCount' = 0
    /\ invalidCount' = 0
    /\ errorCount' = 0
    /\ progress' = <<>>
    /\ validateCalls' = <<>>
    /\ UNCHANGED now
    /\ UNCHANGED notBulk

\* A further process(emails, options) on the same instance once the previous
\* call is over and none of its members is in flight: `this.rateLimiter` is
\* replaced when a rateLimit option is passed and kept otherwise; results and
\* the counters are locals of the call and start afresh.
ProcessAgain ==
    /\ procPc \in {"returned", "rejected"}
    /\ \A g \in DOMAIN tasks : Settled(g)
    /\ \E o \in AgainOptions :
          /\ emails' = <<EmailA>>
          /\ opts' = o
          /\ rateLimiter' = IF o.rateLimit # Null
                            THEN newRateLimiter(o.rateLimit, now)
                            ELSE rateLimiter
    /\ procPc' = "loop"
    /\ ret' = NoReturn
    /\ tasks' = <<NewTask>>
    /\ batchStart' = 1
    /\ results' = <<>>
    /\ completed' = 0
    /\ validCount' = 0
    /\ invalidCount' = 0
    /\ errorCount' = 0
    /\ progress' = <<>>
    /\ validateCalls' = <<>>
    /\ UNCHANGED now
    /\ UNCHANGED notBulk

\* Several process calls, one after the other, on one BulkProcessor.
NextCalls ==
    \/ NextBulk
    \/ ProcessAgain

----------------------------------------------------------------------------
(* A RateLimiter used on its own: a sequence of check() calls on one       *)
(* instance.  `emails` holds the argument of the last call, `ret` its      *)
(* answer and `completed` the number of calls made.                        *)

MaxChecks == 3

\* Arguments of check(): well-formed addresses and addresses from which
\* extractDomain gets nothing (no "@", nothing after the "@", two "@").
CheckEmails ==
    EmailSet \cup {<<"a">>, <<"a", "@">>, <<"a", "@", "x.com", "@", "y.org">>}

\* new RateLimiter(options)
InitLimiter ==
    /\ rateLimiter \in {newRateLimiter(o, 0) : o \in RateLimitOptions \ {Null}}
    /\ emails = <<>>
    /\ opts = [concurrency |-> 1, continueOnError |-> TRUE, onProgress |-> FALSE,
               rateLimit |-> Null]
    /\ now = 0
    /\ procPc = "idle"
    /\ batchStart = 1
    /\ tasks = <<>>
    /\ results = <<>>
    /\ completed = 0
    /\ validCount = 0
    /\ invalidCount = 0
    /\ errorCount = 0
    /\ progress = <<>>
    /\ validateCalls = <<>>
    /\ ret = NoReturn

\* await limiter.check(email)
LimiterCheck ==
    /\ completed < MaxChecks
    /\ \E e \in CheckEmails :
          LET c == check(rateLimiter, e, now)
          IN  /\ rateLimiter' = c.lim
              /\ ret' = [allowed |-> c.allowed, waitTime |-> c.waitTime, type |-> c.type]
              /\ emails' = <<e>>
    /\ completed' = completed + 1
    /\ UNCHANGED <<opts, now, procPc, batchStart, tasks, results, validCount,
                   invalidCount, errorCount, progress, validateCalls>>
    /\ UNCHANGED notBulk

\* Time passes between two calls.
LimiterTick ==
    /\ now < MaxTicks * TickMs
    /\ now' = now + TickMs
    /\ UNCHANGED <<emails, opts, rateLimiter, procPc, batchStart, tasks, results,
                   completed, validCount, invalidCount, errorCount, progress,
                   validateCalls, ret>>
    /\ UNCHANGED notBulk

\* limiter.reset()
LimiterReset ==
    /\ rateLimiter' = reset(rateLimiter, now)
    /\ UNCHANGED <<emails, opts, now, procPc, batchStart, tasks, results, completed,
                   validCount, invalidCount, errorCount, progress, validateCalls, ret>>
    /\ UNCHANGED notBulk

LongIdleMs == 5000

\* A long idle period: more than any bucket's window passes.
LimiterIdle ==
    /\ now < LongIdleMs
    /\ now' = now + LongIdleMs
    /\ UNCHANGED <<emails, opts, rateLimiter, procPc, batchStart, tasks, results,
                   completed, validCount, invalidCount, errorCount, progress,
                   validateCalls, ret>>
    /\ UNCHANGED notBulk

NextLimiter ==
    \/ LimiterCheck
    \/ LimiterTick
    \/ LimiterReset
    \/ LimiterIdle

----------------------------------------------------------------------------
(* SMTP prober (validators/smtp.ts).  Text on the wire is a sequence of    *)
(* atoms: single digits, " ", "-", "\r", "\n", and whole words.            *)

SP == " "
DASH == "-"
CR == "\r"
LF == "\n"

Digits == <<"0", "1", "2", "3", "4", "5", "6", "7", "8", "9">>

\* \d of the response regular expression
IsDigit(a) == \E d \in 1..Len(Digits) : Digits[d] = a

DigitValue(a) == (CHOOSE d \in 1..Len(Digits) : Digits[d] = a) - 1

\* White space removed by String.prototype.trim
IsSpace(a) == a \in {SP, CR, LF}

RECURSIVE trimStart(_)
trimStart(s) ==
    IF s # <<>> /\ IsSpace(Head(s)) THEN trimStart(Tail(s)) ELSE s

RECURSIVE trimEnd(_)
trimEnd(s) ==
    IF s # <<>> /\ IsSpace(s[Len(s)])
    THEN trimEnd(SubSeq(s, 1, Len(s) - 1))
    ELSE s

trim(s) == trimEnd(trimStart(s))

IndexOfCRLF(s) ==
    IF \E k \in 1..(Len(s) - 1) : s[k] = CR /\ s[k + 1] = LF
    THEN CHOOSE k \in 1..(Len(s) - 1) :
            /\ s[k] = CR /\ s[k + 1] = LF
            /\ \A j \in 1..(k - 1) : ~(s[j] = CR /\ s[j + 1] = LF)
    ELSE 0

\* data.split('\r\n')
RECURSIVE splitLines(_)
splitLines(s) ==
    LET k == IndexOfCRLF(s)
    IN  IF k = 0 THEN <<s>>
        ELSE <<SubSeq(s, 1, k - 1)>> \o splitLines(SubSeq(s, k + 2, Len(s)))

\* lastLine.match(/^(\d{3})([- ])(.*)$/): three digits, a dash or a space,
\* then any text without a line terminator.
MatchesResponseLine(line) ==
    /\ Len(line) >= 4
    /\ \A k \in 1..3 : IsDigit(line[k])
    /\ line[4] \in {DASH, SP}
    /\ \A k \in 5..Len(line) : line[k] \notin {CR, LF}

NoResponse == [threw |-> FALSE, code |-> 0, message |-> <<>>, multiline |-> FALSE]

\* parseSMTPResponse: the fields of the last line of the trimmed data; the
\* field threw stands for `throw new Error('Invalid SMTP response format')`.
parseSMTPResponse(data) ==
    LET lines == splitLines(trim(data))
        lastLine == lines[Len(lines)]
    IN  IF MatchesResponseLine(lastLine)
        THEN [threw |-> FALSE,
              code |-> 100 * DigitValue(lastLine[1]) + 10 * DigitValue(lastLine[2])
                       + DigitValue(lastLine[3]),
              message |-> SubSeq(lastLine, 5, Len(lastLine)),
              multiline |-> lastLine[4] = DASH]
        ELSE [NoResponse EXCEPT !.threw = TRUE]

\* buffer.endsWith('\r\n')
endsWithCRLF(buf) ==
    Len(buf) >= 2 /\ buf[Len(buf) - 1] = CR /\ buf[Len(buf)] = LF

\* onData: `if (!response.multiline || buffer.endsWith('\r\n'))`
ReadComplete(response, buf) == ~response.multiline \/ endsWithCRLF(buf)

\* heloResponse.message.toLowerCase().includes('starttls')
supportsSTARTTLS(response) ==
    \E k \in 1..Len(response.message) : toLowerCase(response.message[k]) = "starttls"

\* ---- errors ----
NoError == [class |-> "none", code |-> "none", message |-> "none"]

\* new ValidationError(message, code, 'smtp')
ValidationErr(code) == [class |-> "ValidationError", code |-> code, message |-> "other"]

ConnectionFailed == ValidationErr("SMTP_CONNECTION_FAILED")

\* new TimeoutError(...): a ValidationError with code SMTP_TIMEOUT
TimeoutErr == [class |-> "TimeoutError", code |-> "SMTP_TIMEOUT", message |-> "timeout"]

\* a plain Error raised by the socket, the write callback or the read
PlainErr(message) == [class |-> "Error", code |-> "none", message |-> message]

ConnectErrors == {PlainErr("ECONNREFUSED"), TimeoutErr}

TlsErrors == {PlainErr("tls"), TimeoutErr}

\* ---- what the peer can put on the wire ----
Code220 == <<"2", "2", "0">>
Code250 == <<"2", "5", "0">>
Code450 == <<"4", "5", "0">>
Code550 == <<"5", "5", "0">>

ReplyCodes == {Code220, Code250, Code450, Code550}

Line(code, sep, text) == code \o <<sep>> \o text \o <<CR, LF>>

\* Replies of the peer: single final lines, a final line advertising
\* STARTTLS, two-line replies, a bare code without separator and a banner
\* that is not SMTP.
Replies ==
    {Line(c, SP, <<"ok">>) : c \in ReplyCodes}
    \cup {Line(Code250, SP, <<"STARTTLS">>),
          Line(Code250, DASH, <<"STARTTLS">>) \o Line(Code250, SP, <<"ok">>),
          Line(Code250, DASH, <<"ok">>) \o Line(Code250, SP, <<"STARTTLS">>),
          Code250 \o <<CR, LF>>,
          <<"ok", CR, LF>>}

\* The length of the longest reply.
MaxReply == CHOOSE m \in {Len(r) : r \in Replies} : \A r \in Replies : Len(r) <= m

\* ---- configuration ----
MaxRetries == 1

SmtpUserConfigs ==
    [retries : 0..MaxRetries,
     tlsRequired : {"unset", "true", "false"},
     verifyMailbox : BOOLEAN]

\* SMTPValidator constructor: `this.tlsRequired = config?.tlsRequired ?? false`;
\* these fields are what validate() passes to performSMTPVerification.
SMTPValidator(c) ==
    [c EXCEPT !.tlsRequired = IF c.tlsRequired = "unset" THEN "false" ELSE c.tlsRequired]

\* performSMTPVerification: `const tlsRequired = config.tlsRequired ?? false`
tlsRequired(cfg) == cfg.tlsRequired = "true"

\* `if (supportsSTARTTLS && (tlsRequired || config.tlsRequired !== false))`
ShouldStartTLS(cfg, supports) ==
    supports /\ (tlsRequired(cfg) \/ cfg.tlsRequired # "false")

GreylistDelay == 2000
BackoffBase == 1000
BackoffMax == 5000

RECURSIVE Pow2(_)
Pow2(n) == IF n = 0 THEN 1 ELSE 2 * Pow2(n - 1)

\* Mutation of BackoffDelay: the delay is not capped.
BackoffDelayUncapped(att) == BackoffBase * Pow2(att)

\* Math.min(1000 * Math.pow(2, attempt), 5000)
BackoffDelay(att) == Min(BackoffBase * Pow2(att), BackoffMax)

\* ---- results of one probe attempt ----
NoProbeResult ==
    [set |-> FALSE, valid |-> FALSE, mailboxExists |-> FALSE, greylisted |-> FALSE,
     code |-> 0]

ProbeResult(valid, exists, grey, code) ==
    [set |-> TRUE, valid |-> valid, mailboxExists |-> exists, greylisted |-> grey,
     code |-> code]

\* The decision taken when the response to step pc has been read: send the
\* next command, start the TLS upgrade, return a result, or throw.
Send(cmd, pc) ==
    [kind |-> "send", cmd |-> cmd, pc |-> pc, error |-> NoError, result |-> NoProbeResult]

Upgrade ==
    [kind |-> "upgrade", cmd |-> "none", pc |-> "tls", error |-> NoError,
     result |-> NoProbeResult]

Throw(e) ==
    [kind |-> "throw", cmd |-> "none", pc |-> "none", error |-> e,
     result |-> NoProbeResult]

Return(r) ==
    [kind |-> "return", cmd |-> "none", pc |-> "none", error |-> NoError, result |-> r]

\* Mutation of AfterHelo: the check of tlsRequired against the server's
\* capabilities is left out.
AfterHeloLenient(cfg, helo) ==
    IF ShouldStartTLS(cfg, supportsSTARTTLS(helo)) THEN Send("STARTTLS", "starttls")
    ELSE Send("MAIL FROM", "mailfrom")

\* Step 4 of performSMTPVerification, once EHLO or HELO was answered 250.
AfterHelo(cfg, helo) ==
    IF tlsRequired(cfg) /\ ~supportsSTARTTLS(helo) THEN Throw(ConnectionFailed)
    ELSE IF ShouldStartTLS(cfg, supportsSTARTTLS(helo)) THEN Send("STARTTLS", "starttls")
    ELSE Send("MAIL FROM", "mailfrom")

\* Step 6: the classification of the RCPT TO reply.
ClassifyRcpt(code) ==
    IF code \in {250, 251} THEN Return(ProbeResult(TRUE, TRUE, FALSE, code))
    ELSE IF code \in {450, 451} THEN Return(ProbeResult(FALSE, FALSE, TRUE, code))
    ELSE IF code \in {550, 551, 553} THEN Return(ProbeResult(FALSE, FALSE, FALSE, code))
    ELSE Throw(ConnectionFailed)

\* Mutation of OnResponse: the code of the greeting is not looked at, and
\* RCPT TO is sent whatever verifyMailbox says.
OnResponseUnchecked(pc, r, cfg, helo) ==
    CASE pc = "greeting" -> Send("EHLO", "ehlo")
      [] pc = "ehlo" ->
            IF r.code # 250 THEN Send("HELO", "helo") ELSE AfterHelo(cfg, r)
      [] pc = "helo" ->
            IF r.code # 250 THEN Throw(ConnectionFailed) ELSE AfterHelo(cfg, helo)
      [] pc = "starttls" ->
            IF r.code # 220 THEN Throw(ConnectionFailed) ELSE Upgrade
      [] pc = "tlsehlo" ->
            IF r.code # 250 THEN Throw(ConnectionFailed) ELSE Send("MAIL FROM", "mailfrom")
      [] pc = "mailfrom" ->
            IF r.code # 250 THEN Throw(ConnectionFailed) ELSE Send("RCPT TO", "rcpt")
      [] pc = "rcpt" -> ClassifyRcpt(r.code)

\* performSMTPVerification between two awaits: pc names the step whose
\* response r has just been read, helo is the response to the first EHLO.
OnResponse(pc, r, cfg, helo) ==
    CASE pc = "greeting" ->
            IF r.code # 220 THEN Throw(ConnectionFailed) ELSE Send("EHLO", "ehlo")
      [] pc = "ehlo" ->
            IF r.code # 250 THEN Send("HELO", "helo") ELSE AfterHelo(cfg, r)
      [] pc = "helo" ->
            IF r.code # 250 THEN Throw(ConnectionFailed) ELSE AfterHelo(cfg, helo)
      [] pc = "starttls" ->
            IF r.code # 220 THEN Throw(ConnectionFailed) ELSE Upgrade
      [] pc = "tlsehlo" ->
            IF r.code # 250 THEN Throw(ConnectionFailed) ELSE Send("MAIL FROM", "mailfrom")
      [] pc = "mailfrom" ->
            IF r.code # 250 THEN Throw(ConnectionFailed)
            ELSE IF cfg.verifyMailbox THEN Send("RCPT TO", "rcpt")
            ELSE Return(ProbeResult(TRUE, FALSE, FALSE, 0))
      [] pc = "rcpt" -> ClassifyRcpt(r.code)

\* ---- SMTPValidator.validate around the attempts ----
SmtpOutcome(outcome, r) ==
    [outcome |-> outcome, mailboxExists |-> r.mailboxExists, greylisted |-> r.greylisted]

\* The outer catch of validate(): every error becomes an error result.
ErrorOutcome(e) ==
    IF e.class \in {"ValidationError", "TimeoutError"}
    THEN SmtpOutcome(Failed("smtp", e.code, "error"), NoProbeResult)
    ELSE IF e.message = "timeout"
    THEN SmtpOutcome(Failed("smtp", "SMTP_TIMEOUT", "error"), NoProbeResult)
    ELSE SmtpOutcome(Failed("smtp", "NETWORK_ERROR", "error"), NoProbeResult)

\* Mutation of ResultOutcome: every result that is not valid, greylisted or
\* not, is reported as a missing mailbox.
ResultOutcomeNotFound(r) ==
    IF r.valid THEN SmtpOutcome(Passed("smtp"), r)
    ELSE SmtpOutcome(Failed("smtp", "SMTP_MAILBOX_NOT_FOUND", "error"), r)

\* `if (lastResult) { ... }`
ResultOutcome(r) ==
    IF r.valid THEN SmtpOutcome(Passed("smtp"), r)
    ELSE IF r.greylisted
    THEN SmtpOutcome(Failed("smtp", "SMTP_CONNECTION_FAILED", "error"), r)
    ELSE SmtpOutcome(Failed("smtp", "SMTP_MAILBOX_NOT_FOUND", "error"), r)

\* `error.code === SMTP_MAILBOX_NOT_FOUND || error.code === MX_NOT_FOUND`
NoRetry(e) ==
    /\ e.class \in {"ValidationError", "TimeoutError"}
    /\ e.code \in {"SMTP_MAILBOX_NOT_FOUND", "MX_NOT_FOUND"}

\* Mutation of AfterReturn: a greylisted result of the last attempt is
\* retried once more.
AfterReturnExtraGreylist(r, att, retries) ==
    IF r.greylisted /\ att <= retries
    THEN [pc |-> "sleep", attempt |-> att + 1, delay |-> GreylistDelay,
          lastResult |-> NoProbeResult, out |-> NoResult]
    ELSE [pc |-> "done", attempt |-> att, delay |-> 0,
          lastResult |-> r, out |-> ResultOutcome(r)]

\* The retry loop after an attempt returned r: sleep and go round again, or
\* keep the result and leave the loop.
AfterReturn(r, att, retries) ==
    IF r.greylisted /\ att < retries
    THEN [pc |-> "sleep", attempt |-> att + 1, delay |-> GreylistDelay,
          lastResult |-> NoProbeResult, out |-> NoResult]
    ELSE [pc |-> "done", attempt |-> att, delay |-> 0,
          lastResult |-> r, out |-> ResultOutcome(r)]

\* The retry loop after an attempt threw e.
AfterThrow(e, att, retries) ==
    IF NoRetry(e)
    THEN [pc |-> "done", attempt |-> att, delay |-> 0, out |-> ErrorOutcome(e)]
    ELSE IF att < retries
    THEN [pc |-> "sleep", attempt |-> att + 1, delay |-> BackoffDelay(att),
          out |-> NoResult]
    ELSE [pc |-> "done", attempt |-> att + 1, delay |-> 0, out |-> ErrorOutcome(e)]

SmtpIdle ==
    /\ smtpConfig = [retries |-> 0, tlsRequired |-> "false", verifyMailbox |-> TRUE]
    /\ smtpPc = "done"
    /\ io = "none"
    /\ attempt = 0
    /\ socket = "none"
    /\ tlsUsed = FALSE
    /\ buffer = <<>>
    /\ wire = <<>>
    /\ awaiting = FALSE
    /\ sent = <<>>
    /\ heloResponse = NoResponse
    /\ caught = NoError
    /\ lastError = NoError
    /\ lastResult = NoProbeResult
    /\ lastSleep = 0
    /\ connections = 0
    /\ smtpResult = NoResult
    /\ uncaught = FALSE

\* new SMTPValidator(config)
InitSmtp ==
    /\ smtpConfig \in {SMTPValidator(c) : c \in SmtpUserConfigs}
    /\ smtpPc = "idle"
    /\ io = "none"
    /\ attempt = 0
    /\ socket = "none"
    /\ tlsUsed = FALSE
    /\ buffer = <<>>
    /\ wire = <<>>
    /\ awaiting = FALSE
    /\ sent = <<>>
    /\ heloResponse = NoResponse
    /\ caught = NoError
    /\ lastError = NoError
    /\ lastResult = NoProbeResult
    /\ lastSleep = 0
    /\ connections = 0
    /\ smtpResult = NoResult
    /\ uncaught = FALSE

\* validate(email) up to `await getMXHost(domain)`; the address has a domain.
SmtpValidate ==
    /\ smtpPc = "idle"
    /\ smtpPc' = "mx"
    /\ UNCHANGED <<smtpConfig, io, attempt, socket, tlsUsed, buffer, wire, awaiting,
                   sent, heloResponse, caught, lastError, lastResult, lastSleep,
                   connections, smtpResult, uncaught>>
    /\ UNCHANGED notSmtp

\* getMXHost: resolveMx answers with records, with none, or fails.
ResolveMx ==
    /\ smtpPc = "mx"
    /\ \E answer \in {"records", "empty", "error"} :
          smtpPc' = IF answer = "records" THEN "connect" ELSE "a"
    /\ UNCHANGED <<smtpConfig, io, attempt, socket, tlsUsed, buffer, wire, awaiting,
                   sent, heloResponse, caught, lastError, lastResult, lastSleep,
                   connections, smtpResult, uncaught>>
    /\ UNCHANGED notSmtp

\* getMXHost: the resolve4 fallback; without a host validate() returns the
\* MX_NOT_FOUND error result.
Resolve4 ==
    /\ smtpPc = "a"
    /\ \E answer \in {"records", "empty", "error"} :
          IF answer = "records"
          THEN smtpPc' = "connect" /\ smtpResult' = smtpResult
          ELSE /\ smtpPc' = "done"
               /\ smtpResult' = ErrorOutcome(ValidationErr("MX_NOT_FOUND"))
    /\ UNCHANGED <<smtpConfig, io, attempt, socket, tlsUsed, buffer, wire, awaiting,
                   sent, heloResponse, caught, lastError, lastResult, lastSleep,
                   connections, uncaught>>
    /\ UNCHANGED notSmtp

\* sendSMTPCommand up to socket.write: the command is handed to the socket
\* sock, whose remaining inbound data is w.
SendCommand(cmd, pc, sock, tls, w) ==
    /\ smtpPc' = pc
    /\ io' = "writing"
    /\ socket' = sock
    /\ tlsUsed' = tls
    /\ buffer' = <<>>
    /\ wire' = w
    /\ sent' = Append(sent, [cmd |-> cmd, tls |-> tls])
    /\ UNCHANGED <<attempt, lastError, lastResult, lastSleep, smtpResult>>

\* The catch block of performSMTPVerification with a socket at hand: the
\* error is kept while QUIT is exchanged.
CatchWithSocket(e, sock, w) ==
    /\ caught' = e
    /\ SendCommand("QUIT", "quit", sock, tlsUsed, w)
    /\ UNCHANGED <<heloResponse, awaiting>>

\* The attempt is over: the socket (if any) is destroyed and the retry loop
\* of validate() takes its decision d.
EndAttempt(d, sock) ==
    /\ smtpPc' = d.pc
    /\ attempt' = d.attempt
    /\ lastSleep' = IF d.pc = "sleep" THEN d.delay ELSE lastSleep
    /\ smtpResult' = d.out
    /\ io' = "none"
    /\ socket' = sock
    /\ buffer' = <<>>
    /\ wire' = <<>>
    /\ awaiting' = FALSE
    /\ UNCHANGED <<tlsUsed, sent, heloResponse>>

\* performSMTPVerification returned r (finally: socket.destroy()).
AttemptReturns(r) ==
    /\ EndAttempt(AfterReturn(r, attempt, smtpConfig.retries), "destroyed")
    /\ lastResult' = AfterReturn(r, attempt, smtpConfig.retries).lastResult
    /\ UNCHANGED <<lastError, caught>>

\* performSMTPVerification threw e.
AttemptThrows(e, sock) ==
    /\ EndAttempt(AfterThrow(e, attempt, smtpConfig.retries), sock)
    /\ lastError' = e
    /\ UNCHANGED <<lastResult, caught>>

\* A read or a write of the current step failed with e.
Rejected(e, sock, w) ==
    IF smtpPc = "quit"
    THEN AttemptThrows(caught, "destroyed")
    ELSE CatchWithSocket(e, sock, w)

\* The response r to the current step has been read; the code runs on to
\* its next await.
Resolved(r, w) ==
    IF smtpPc = "quit"
    THEN AttemptThrows(caught, "destroyed")
    ELSE LET d == OnResponse(smtpPc, r, smtpConfig, heloResponse)
         IN  /\ CASE d.kind = "send" ->
                        /\ SendCommand(d.cmd, d.pc, socket, tlsUsed, w)
                        /\ UNCHANGED <<caught, awaiting>>
                  [] d.kind = "upgrade" ->
                        /\ smtpPc' = "tls"
                        /\ io' = "none"
                        /\ buffer' = <<>>
                        /\ wire' = w
                        /\ UNCHANGED <<socket, tlsUsed, sent, caught, awaiting, attempt,
                                       lastError, lastResult, lastSleep, smtpResult>>
                  [] d.kind = "throw" ->
                        CatchWithSocket(d.error, socket, w)
                  [] d.kind = "return" ->
                        AttemptReturns(d.result)
             /\ IF d.kind \in {"send", "upgrade"}
                THEN heloResponse' = IF smtpPc = "ehlo" THEN r ELSE heloResponse
                ELSE TRUE

\* connectToSMTP resolved: the greeting is awaited on the new socket.
ConnectOk ==
    /\ smtpPc = "connect"
    /\ smtpPc' = "greeting"
    /\ io' = "reading"
    /\ socket' = "open"
    /\ buffer' = <<>>
    /\ wire' = <<>>
    /\ awaiting' = TRUE
    /\ connections' = connections + 1
    /\ UNCHANGED <<smtpConfig, attempt, tlsUsed, sent, heloResponse, caught, lastError,
                   lastResult, lastSleep, smtpResult, uncaught>>
    /\ UNCHANGED notSmtp

\* Mutation of connectRejected: the connection timeout leaves the socket it
\* created open.
connectRejectedLeaks(e) == IF e.class = "TimeoutError" THEN "open" ELSE "destroyed"

\* connectToSMTP's onError and onTimeout: `socket.destroy(); reject(...)`.
connectRejected(e) == "destroyed"

\* connectToSMTP rejected (socket error or connection timeout): the socket
\* it created is left as connectRejected says; the local `socket` is still
\* null, so the catch block rethrows at once.
ConnectFails ==
    /\ smtpPc = "connect"
    /\ \E e \in ConnectErrors : AttemptThrows(e, connectRejected(e))
    /\ connections' = connections + 1
    /\ UNCHANGED <<smtpConfig, uncaught>>
    /\ UNCHANGED notSmtp

\* The write callback of sendSMTPCommand without error: readSMTPResponse
\* attaches its listeners.
WriteDone ==
    /\ io = "writing"
    /\ socket \in {"open", "tls"}
    /\ io' = "reading"
    /\ buffer' = <<>>
    /\ awaiting' = TRUE
    /\ UNCHANGED <<smtpConfig, smtpPc, attempt, socket, tlsUsed, wire, sent,
                   heloResponse, caught, lastError, lastResult, lastSleep, connections,
                   smtpResult, uncaught>>
    /\ UNCHANGED notSmtp

\* The write callback of sendSMTPCommand with an error.
WriteFails ==
    /\ io = "writing"
    /\ Rejected(PlainErr("write"), "destroyed", <<>>)
    /\ UNCHANGED <<smtpConfig, connections, uncaught>>
    /\ UNCHANGED notSmtp

\* The peer answers the greeting or the last command.
ServerReplies ==
    /\ awaiting
    /\ wire = <<>>
    /\ socket \in {"open", "tls"}
    /\ \E reply \in Replies : wire' = reply
    /\ awaiting' = FALSE
    /\ UNCHANGED <<smtpConfig, smtpPc, io, attempt, socket, tlsUsed, buffer, sent,
                   heloResponse, caught, lastError, lastResult, lastSleep, connections,
                   smtpResult, uncaught>>
    /\ UNCHANGED notSmtp

Chunk(n) == SubSeq(wire, 1, n)

Rest(n) == SubSeq(wire, n + 1, Len(wire))

\* A chunk arrives while no 'data' listener is attached: it is discarded.
DataDropped(n) ==
    /\ socket \in {"open", "tls"}
    /\ n \in 1..Len(wire)
    /\ io # "reading"
    /\ wire' = Rest(n)
    /\ UNCHANGED <<smtpConfig, smtpPc, io, attempt, socket, tlsUsed, buffer, awaiting,
                   sent, heloResponse, caught, lastError, lastResult, lastSleep,
                   connections, smtpResult, uncaught>>
    /\ UNCHANGED notSmtp

\* onData where parseSMTPResponse throws: the exception leaves the 'data'
\* listener, outside every promise, and nothing catches it: the call never
\* settles and the uncaught exception ends the process.
DataThrows(n) ==
    /\ socket \in {"open", "tls"}
    /\ n \in 1..Len(wire)
    /\ io = "reading"
    /\ parseSMTPResponse(buffer \o Chunk(n)).threw
    /\ buffer' = buffer \o Chunk(n)
    /\ uncaught' = TRUE
    /\ smtpPc' = "crashed"
    /\ io' = "none"
    /\ socket' = "destroyed"
    /\ wire' = <<>>
    /\ UNCHANGED <<smtpConfig, attempt, tlsUsed, awaiting, sent, heloResponse,
                   caught, lastError, lastResult, lastSleep, connections, smtpResult>>
    /\ UNCHANGED notSmtp

\* onData where the buffer parses as a continuation line and does not end
\* in CRLF: the read goes on.
DataIncomplete(n) ==
    /\ socket \in {"open", "tls"}
    /\ n \in 1..Len(wire)
    /\ io = "reading"
    /\ ~parseSMTPResponse(buffer \o Chunk(n)).threw
    /\ ~ReadComplete(parseSMTPResponse(buffer \o Chunk(n)), buffer \o Chunk(n))
    /\ buffer' = buffer \o Chunk(n)
    /\ wire' = Rest(n)
    /\ UNCHANGED <<smtpConfig, smtpPc, io, attempt, socket, tlsUsed, awaiting, sent,
                   heloResponse, caught, lastError, lastResult, lastSleep, connections,
                   smtpResult, uncaught>>
    /\ UNCHANGED notSmtp

\* onData where the read completes: cleanup, resolve(response), and the
\* caller runs on to its next await.
DataCompletes(n) ==
    /\ socket \in {"open", "tls"}
    /\ n \in 1..Len(wire)
    /\ io = "reading"
    /\ ~parseSMTPResponse(buffer \o Chunk(n)).threw
    /\ ReadComplete(parseSMTPResponse(buffer \o Chunk(n)), buffer \o Chunk(n))
    /\ Resolved(parseSMTPResponse(buffer \o Chunk(n)), Rest(n))
    /\ UNCHANGED <<smtpConfig, connections, uncaught>>
    /\ UNCHANGED notSmtp

\* onTimeout of readSMTPResponse
ReadTimeout ==
    /\ io = "reading"
    /\ Rejected(TimeoutErr, socket, wire)
    /\ UNCHANGED <<smtpConfig, connections, uncaught>>
    /\ UNCHANGED notSmtp

\* onError of readSMTPResponse
SocketError ==
    /\ io = "reading"
    /\ Rejected(PlainErr("ECONNRESET"), "destroyed", <<>>)
    /\ UNCHANGED <<smtpConfig, connections, uncaught>>
    /\ UNCHANGED notSmtp

\* onClose of readSMTPResponse
SocketClose ==
    /\ io = "reading"
    /\ Rejected(PlainErr("closed"), "destroyed", <<>>)
    /\ UNCHANGED <<smtpConfig, connections, uncaught>>
    /\ UNCHANGED notSmtp

\* upgradeToTLS resolved: tlsUsed is set and EHLO is sent again.
TlsOk ==
    /\ smtpPc = "tls"
    /\ SendCommand("EHLO", "tlsehlo", "tls", TRUE, wire)
    /\ UNCHANGED <<smtpConfig, awaiting, heloResponse, caught, connections, uncaught>>
    /\ UNCHANGED notSmtp

\* upgradeToTLS rejected (handshake error or handshake timeout).
TlsFails ==
    /\ smtpPc = "tls"
    /\ \E e \in TlsErrors : CatchWithSocket(e, "destroyed", <<>>)
    /\ UNCHANGED <<smtpConfig, connections, uncaught>>
    /\ UNCHANGED notSmtp

\* The sleep before the next attempt is over: the loop body starts again
\* with fresh locals.
Wake ==
    /\ smtpPc = "sleep"
    /\ smtpPc' = "connect"
    /\ socket' = "none"
    /\ tlsUsed' = FALSE
    /\ sent' = <<>>
    /\ heloResponse' = NoResponse
    /\ caught' = NoError
    /\ UNCHANGED <<smtpConfig, io, attempt, buffer, wire, awaiting, lastError,
                   lastResult, lastSleep, connections, smtpResult, uncaught>>
    /\ UNCHANGED notSmtp

NextSmtp ==
    \/ SmtpValidate
    \/ ResolveMx
    \/ Resolve4
    \/ ConnectOk
    \/ ConnectFails
    \/ WriteDone
    \/ WriteFails
    \/ ServerReplies
    \/ \E n \in 1..MaxReply : DataDropped(n)
    \/ \E n \in 1..MaxReply : DataThrows(n)
    \/ \E n \in 1..MaxReply : DataIncomplete(n)
    \/ \E n \in 1..MaxReply : DataCompletes(n)
    \/ ReadTimeout
    \/ SocketError
    \/ SocketClose
    \/ TlsOk
    \/ TlsFails
    \/ Wake


----------------------------------------------------------------------------
(* The retry loop of SMTPValidator.validate on its own: a probe attempt is  *)
(* taken as a whole, by the result it returns or the error it throws, so    *)
(* that enough retries can be configured for the backoff to reach its cap.  *)

RetryLimit == 4

RetryConfigs ==
    [retries : 0..RetryLimit, tlsRequired : {"false"}, verifyMailbox : {TRUE}]

\* What performSMTPVerification can return (step 6) ...
ProbeResults ==
    {ClassifyRcpt(c).result : c \in {250, 251, 450, 451, 550, 551, 553}}

\* ... and what it can throw.
ProbeErrors == ConnectErrors \cup {ConnectionFailed, PlainErr("ECONNRESET")}

InitRetry ==
    /\ smtpConfig \in RetryConfigs
    /\ smtpPc = "idle"
    /\ io = "none"
    /\ attempt = 0
    /\ socket = "none"
    /\ tlsUsed = FALSE
    /\ buffer = <<>>
    /\ wire = <<>>
    /\ awaiting = FALSE
    /\ sent = <<>>
    /\ heloResponse = NoResponse
    /\ caught = NoError
    /\ lastError = NoError
    /\ lastResult = NoProbeResult
    /\ lastSleep = 0
    /\ connections = 0
    /\ smtpResult = NoResult
    /\ uncaught = FALSE

\* `const result = await performSMTPVerification(...)` returns.
ProbeReturns ==
    /\ smtpPc = "connect"
    /\ \E r \in ProbeResults : AttemptReturns(r)
    /\ connections' = connections + 1
    /\ UNCHANGED <<smtpConfig, uncaught>>
    /\ UNCHANGED notSmtp

\* `await performSMTPVerification(...)` throws.
ProbeThrows ==
    /\ smtpPc = "connect"
    /\ \E e \in ProbeErrors : AttemptThrows(e, "destroyed")
    /\ connections' = connections + 1
    /\ UNCHANGED <<smtpConfig, uncaught>>
    /\ UNCHANGED notSmtp

NextRetry ==
    \/ SmtpValidate
    \/ ResolveMx
    \/ Resolve4
    \/ ProbeReturns
    \/ ProbeThrows
    \/ Wake


----------------------------------------------------------------------------
(* MX resolver (validators/mx.ts): MXValidator.validate, performDNSLookup  *)
(* and the two retry loops resolveMXWithRetry / resolveAWithRetry, against *)
(* a DNS client that answers, fails or stays silent until the timer of the *)
(* race fires.                                                             *)

MxMaxRetries == 4

MxConfigs == [retries : 0..MxMaxRetries, fallbackToA : BOOLEAN]

MXRecord(priority, exchange) == [priority |-> priority, exchange |-> exchange]

\* What resolveMx can resolve with: no record, one record, two records out
\* of order, two records of equal priority.
MxAnswers ==
    {<<>>,
     <<MXRecord(10, "mx1")>>,
     <<MXRecord(20, "mx2"), MXRecord(10, "mx1")>>,
     <<MXRecord(10, "mx1"), MXRecord(10, "mx2")>>}

\* What resolve4 can resolve with.
AAnswers == {<<>>, <<"192.0.2.1">>}

\* Messages of the errors a lookup can fail with: the resolver's ENOTFOUND,
\* ENODATA and ECONNREFUSED, and the rejection of the race's timeoutPromise.
DnsErrors ==
    {<<"queryMx", "ENOTFOUND", "x.com">>,
     <<"queryMx", "ENODATA", "x.com">>,
     <<"queryMx", "ECONNREFUSED", "x.com">>,
     <<"DNS", "lookup", "timeout">>}

NoDnsError == <<>>

\* String.prototype.includes on a message made of words.
includes(message, word) == \E k \in 1..Len(message) : message[k] = word

\* Array.prototype.sort((a, b) => a.priority - b.priority): a stable sort.
RECURSIVE InsertByPriority(_, _)
InsertByPriority(sorted, record) ==
    IF sorted = <<>> THEN <<record>>
    ELSE IF sorted[Len(sorted)].priority <= record.priority
    THEN Append(sorted, record)
    ELSE Append(InsertByPriority(SubSeq(sorted, 1, Len(sorted) - 1), record),
                sorted[Len(sorted)])

RECURSIVE SortByPriority(_)
SortByPriority(records) ==
    IF records = <<>> THEN <<>>
    ELSE InsertByPriority(SortByPriority(SubSeq(records, 1, Len(records) - 1)),
                          records[Len(records)])

\* calculateMXQuality
calculateMXQuality(records, hasA) ==
    IF Len(records) = 0 THEN (IF hasA THEN 10 ELSE 0)
    ELSE IF Len(records) = 1 THEN 15
    ELSE IF Cardinality({records[i].priority : i \in 1..Len(records)}) > 1 THEN 20
    ELSE 18

\* `lastError.message.includes('ENOTFOUND') || ...includes('NXDOMAIN')`
IsNotFound(message) == includes(message, "ENOTFOUND") \/ includes(message, "NXDOMAIN")

\* Math.min(1000 * Math.pow(2, attempt), 5000)
MxBackoff(att) == Min(1000 * Pow2(att), 5000)

\* Mutation of AfterDnsError: a not-found failure is retried like any other.
AfterDnsErrorRetriesNotFound(message, att, retries) ==
    IF att < retries THEN [kind |-> "sleep", delay |-> MxBackoff(att)]
    ELSE [kind |-> "throw", delay |-> 0]

\* The catch block of resolveMXWithRetry / resolveAWithRetry: rethrow a
\* not-found error at once, sleep before the next attempt if one is left,
\* fall out of the loop (and throw lastError) after the last one.
AfterDnsError(message, att, retries) ==
    IF IsNotFound(message) THEN [kind |-> "throw", delay |-> 0]
    ELSE IF att < retries THEN [kind |-> "sleep", delay |-> MxBackoff(att)]
    ELSE [kind |-> "throw", delay |-> 0]

\* Mutation of NeedsALookup: the A lookup is made whatever fallbackToA says.
NeedsALookupAlways(hasMX, fallbackToA) == ~hasMX

\* `if (!hasMX && fallbackToA)` of performDNSLookup
NeedsALookup(hasMX, fallbackToA) == ~hasMX /\ fallbackToA

MxOutcome(outcome, records, addresses) ==
    [outcome |-> outcome, hasMX |-> records # <<>>, hasA |-> addresses # <<>>,
     quality |-> calculateMXQuality(records, addresses # <<>>)]

\* MXValidator.validate after performDNSLookup returned.
DnsOutcome(records, addresses) ==
    IF records = <<>> /\ addresses = <<>>
    THEN MxOutcome(Failed("mx", "MX_NOT_FOUND", "error"), records, addresses)
    ELSE MxOutcome(Passed("mx"), records, addresses)

\* The catch block of MXValidator.validate for an error of the DNS client:
\* not-found messages become MX_NOT_FOUND, timeouts and everything else a
\* NetworkError.
MxErrorOutcome(message) ==
    IF includes(message, "ENOTFOUND") \/ includes(message, "NXDOMAIN")
       \/ includes(message, "not found")
    THEN MxOutcome(Failed("mx", "MX_NOT_FOUND", "error"), <<>>, <<>>)
    ELSE IF includes(message, "timeout")
    THEN MxOutcome(Failed("mx", "NETWORK_ERROR", "error"), <<>>, <<>>)
    ELSE MxOutcome(Failed("mx", "NETWORK_ERROR", "error"), <<>>, <<>>)

Query(op) == [op |-> op, ms |-> 0]

Slept(ms) == [op |-> "sleep", ms |-> ms]

MxIdle ==
    /\ mxConfig = [retries |-> 0, fallbackToA |-> FALSE]
    /\ mxPc = "done"
    /\ mxAttempt = 0
    /\ mxLastError = NoDnsError
    /\ mxError = NoDnsError
    /\ mxRecords = <<>>
    /\ aRecords = <<>>
    /\ dnsLog = <<>>
    /\ mxResult = NoResult

\* new MXValidator(config)
InitMx ==
    /\ mxConfig \in MxConfigs
    /\ mxPc = "idle"
    /\ mxAttempt = 0
    /\ mxLastError = NoDnsError
    /\ mxError = NoDnsError
    /\ mxRecords = <<>>
    /\ aRecords = <<>>
    /\ dnsLog = <<>>
    /\ mxResult = NoResult

\* validate(email) up to the first resolveMx call; the address has a domain.
MxValidate ==
    /\ mxPc = "idle"
    /\ mxPc' = "mx"
    /\ mxAttempt' = 0
    /\ dnsLog' = Append(dnsLog, Query("resolveMx"))
    /\ UNCHANGED <<mxConfig, mxLastError, mxError, mxRecords, aRecords, mxResult>>
    /\ UNCHANGED notMx

\* performDNSLookup goes on to resolveAWithRetry and its first resolve4 call.
StartALookup ==
    /\ mxPc' = "a"
    /\ mxAttempt' = 0
    /\ dnsLog' = Append(dnsLog, Query("resolve4"))
    /\ mxResult' = mxResult

\* validate() returns result.
MxReturns(result) ==
    /\ mxPc' = "done"
    /\ mxResult' = result
    /\ UNCHANGED <<mxAttempt, dnsLog>>

\* resolveMx resolved: the records are sorted and returned to
\* performDNSLookup, which falls back to the A lookup or returns.
ResolveMxAnswers ==
    /\ mxPc = "mx"
    /\ \E records \in MxAnswers :
          /\ mxRecords' = SortByPriority(records)
          /\ IF NeedsALookup(records # <<>>, mxConfig.fallbackToA)
             THEN StartALookup
             ELSE MxReturns(DnsOutcome(SortByPriority(records), <<>>))
    /\ UNCHANGED <<mxConfig, mxLastError, mxError, aRecords>>
    /\ UNCHANGED notMx

\* resolveMx rejected or the timer of the race fired.
ResolveMxFails ==
    /\ mxPc = "mx"
    /\ \E message \in DnsErrors :
          /\ mxLastError' = message
          /\ IF AfterDnsError(message, mxAttempt, mxConfig.retries).kind = "sleep"
             THEN /\ mxPc' = "mxsleep"
                  /\ dnsLog' = Append(dnsLog,
                        Slept(AfterDnsError(message, mxAttempt, mxConfig.retries).delay))
                  /\ UNCHANGED <<mxAttempt, mxError, mxResult>>
             ELSE /\ mxError' = message
                  /\ IF mxConfig.fallbackToA
                     THEN StartALookup
                     ELSE MxReturns(MxErrorOutcome(message))
    /\ UNCHANGED <<mxConfig, mxRecords, aRecords>>
    /\ UNCHANGED notMx

\* The backoff sleep of resolveMXWithRetry is over: next attempt.
MxWake ==
    /\ mxPc = "mxsleep"
    /\ mxPc' = "mx"
    /\ mxAttempt' = mxAttempt + 1
    /\ dnsLog' = Append(dnsLog, Query("resolveMx"))
    /\ UNCHANGED <<mxConfig, mxLastError, mxError, mxRecords, aRecords, mxResult>>
    /\ UNCHANGED notMx

\* resolve4 resolved.
ResolveAAnswers ==
    /\ mxPc = "a"
    /\ \E addresses \in AAnswers :
          /\ aRecords' = addresses
          /\ MxReturns(DnsOutcome(mxRecords, addresses))
    /\ UNCHANGED <<mxConfig, mxLastError, mxError, mxRecords>>
    /\ UNCHANGED notMx

\* resolve4 rejected or the timer of the race fired; performDNSLookup
\* rethrows the error of the A lookup when there is no MX record.
ResolveAFails ==
    /\ mxPc = "a"
    /\ \E message \in DnsErrors :
          /\ mxLastError' = message
          /\ IF AfterDnsError(message, mxAttempt, mxConfig.retries).kind = "sleep"
             THEN /\ mxPc' = "asleep"
                  /\ dnsLog' = Append(dnsLog,
                        Slept(AfterDnsError(message, mxAttempt, mxConfig.retries).delay))
                  /\ UNCHANGED <<mxAttempt, mxResult>>
             ELSE IF mxRecords = <<>>
             THEN MxReturns(MxErrorOutcome(message))
             ELSE MxReturns(DnsOutcome(mxRecords, <<>>))
    /\ UNCHANGED <<mxConfig, mxError, mxRecords, aRecords>>
    /\ UNCHANGED notMx

\* The backoff sleep of resolveAWithRetry is over: next attempt.
AWake ==
    /\ mxPc = "asleep"
    /\ mxPc' = "a"
    /\ mxAttempt' = mxAttempt + 1
    /\ dnsLog' = Append(dnsLog, Query("resolve4"))
    /\ UNCHANGED <<mxConfig, mxLastError, mxError, mxRecords, aRecords, mxResult>>
    /\ UNCHANGED notMx

NextMx ==
    \/ MxValidate
    \/ ResolveMxAnswers
    \/ ResolveMxFails
    \/ MxWake
    \/ ResolveAAnswers
    \/ ResolveAFails
    \/ AWake

----------------------------------------------------------------------------
(* Properties of the pipeline run                                          *)

StageOf(name) == CHOOSE k \in 1..Len(validatorOrder) : validatorOrder[k] = name

Recorded(name) == \E i \in 1..Len(ctxResults) : ctxResults[i].name = name

\* The recorded outcome of the validator failed with a severity other than
\* warning.
RealFailure(name) ==
    \E i \in 1..Len(ctxResults) :
        /\ ctxResults[i].name = name
        /\ ~ctxResults[i].valid
        /\ ctxResults[i].severity # "warning"

TypoWarned ==
    \E i \in 1..Len(ctxResults) :
        /\ ctxResults[i].name = "typo"
        /\ ~ctxResults[i].valid
        /\ ctxResults[i].severity = "warning"

\* C1: with earlyExit enabled a failing outcome of severity warning (the typo
\* suggestion) does not stop the run: when the run has ended, an enabled
\* stage is missing from the results map only if an earlier stage failed
\* with a severity other than warning.
C1_WarningDoesNotStopRun ==
    (final # NoResult /\ config.earlyExit) =>
        \A k \in 1..Len(validatorOrder) :
            (IsEnabled(config, validatorOrder[k]) /\ ~Recorded(validatorOrder[k]))
                => \E j \in 1..(k - 1) : RealFailure(validatorOrder[j])

\* C2: overallValid is false iff at least one recorded outcome failed with
\* a severity other than warning.
C2_ValidIffNoRealFailure ==
    final # NoResult =>
        (final.valid = FALSE <=> \E n \in Names : RealFailure(n))

C2_Witness ==
    /\ final # NoResult
    /\ TypoWarned
    /\ final.valid
    /\ Len(ctxResults) >= 3

\* C3: failureReason is the first stage, in execution order, whose outcome
\* failed with non-warning severity, and is absent exactly when there is no
\* such outcome.
C3_ReasonIsFirstRealFailure ==
    final # NoResult =>
        LET failing == {k \in 1..Len(validatorOrder) : RealFailure(validatorOrder[k])}
        IN  IF failing = {}
            THEN final.reason = NoReason
            ELSE final.reason =
                   validatorOrder[CHOOSE k \in failing : \A j \in failing : k <= j]

C3_Witness ==
    /\ final # NoResult
    /\ RealFailure("disposable")
    /\ RealFailure("smtp")
    /\ TypoWarned
    /\ final.reason = "disposable"

\* C4: with earlyExit, once stage k has failed with non-warning severity no
\* later stage is invoked and no later stage has an outcome in the results
\* map (nor in the validators of the returned result).
C4_EarlyExitTruncates ==
    config.earlyExit =>
        \A k \in 1..Len(validatorOrder) : \A j \in (k + 1)..Len(validatorOrder) :
            RealFailure(validatorOrder[k]) =>
                /\ ~Recorded(validatorOrder[j])
                /\ \A i \in 1..Len(invoked) : invoked[i] # validatorOrder[j]
                /\ (final # NoResult => validatorOrder[j] \notin final.validators)

C4_Witness ==
    /\ final # NoResult
    /\ config.earlyExit
    /\ config.enabled = Names
    /\ RealFailure("disposable")
    /\ invoked = <<"regex", "typo", "disposable">>

----------------------------------------------------------------------------
----------------------------------------------------------------------------
(* Properties of the SMTP prober                                           *)

\* C5: whatever the resolver and the SMTP peer do (errors, timeouts, closed
\* connections, malformed or fragmented reply lines), no exception escapes
\* the smtp validator: every failure ends up in the outcome that validate()
\* returns, and none is raised past it.
C5_NoExceptionEscapes == ~uncaught /\ smtpPc # "crashed"

----------------------------------------------------------------------------
(* Properties of the bulk processor                                        *)

Returned == procPc = "returned"

Denied(g) == tasks[g].st # "new" /\ ~tasks[g].allowed

ProgressCalls(g) == Cardinality({k \in 1..Len(progress) : progress[k].index = g})

Called(g) == \E k \in 1..Len(validateCalls) : validateCalls[k] = g

\* C6: when process returns, results has the length of emails and
\* results[i].email = emails[i] for every index i, whatever the concurrency
\* and the completion order.
C6_OrderPreserved ==
    Returned =>
        /\ Len(ret.results) = Len(emails)
        /\ \A i \in 1..Len(emails) :
              /\ ret.results[i] # Hole
              /\ ret.results[i].email = emails[i]

\* A returned run over three addresses, not all equal, whose validations
\* completed in an order other than the input order.
C6_Witness ==
    /\ Returned
    /\ Len(emails) = 3
    /\ emails[1] # emails[2]
    /\ opts.concurrency >= 2
    /\ \E k \in 1..(Len(progress) - 1) : progress[k].index > progress[k + 1].index

\* C7: during a process call onProgress is invoked exactly once for each
\* address as it completes, completed never decreases from one call to the
\* next, total is always len(emails), and at most len(emails) calls are made.
C7_ProgressOncePerAddress ==
    (opts.onProgress /\ procPc \in {"loop", "waiting", "returned"}) =>
        /\ \A g \in DOMAIN tasks :
              /\ ProgressCalls(g) <= 1
              /\ Settled(g) => ProgressCalls(g) = 1
        /\ \A k \in 1..Len(progress) : progress[k].total = Len(emails)
        /\ \A k \in 1..(Len(progress) - 1) :
              progress[k].completed <= progress[k + 1].completed
        /\ Len(progress) <= Len(emails)

\* C8 as claimed: when process returns, total = len(emails), valid and
\* invalid count the results with overallValid true and false, and errors
\* counts the addresses whose pipeline threw.
C8_TalliesAsClaimed ==
    Returned =>
        /\ ret.total = Len(emails)
        /\ ret.valid = Cardinality({i \in 1..Len(ret.results) : ret.results[i].valid})
        /\ ret.invalid = Cardinality({i \in 1..Len(ret.results) : ~ret.results[i].valid})
        /\ ret.errors = Cardinality({g \in DOMAIN tasks : tasks[g].threw})

\* C8 (amended): when process returns, total = len(emails), valid counts the
\* results with overallValid true, errors counts the addresses whose
\* pipeline threw (rate-limit denials excluded), and invalid counts the
\* results with overallValid false other than the entries synthesized for a
\* thrown pipeline (rate-limited entries included).
C8_Tallies ==
    Returned =>
        /\ ret.total = Len(emails)
        /\ ret.valid = Cardinality({i \in 1..Len(ret.results) : ret.results[i].valid})
        /\ ret.invalid = Cardinality({i \in 1..Len(ret.results) :
                                        ~ret.results[i].valid /\ ~tasks[i].threw})
        /\ ret.errors = Cardinality({g \in DOMAIN tasks : tasks[g].threw})
        /\ \A g \in DOMAIN tasks : Denied(g) => ~tasks[g].threw

C8_Witness ==
    /\ Returned
    /\ ret.errors = 1
    /\ ret.valid = 1
    /\ ret.invalid = 1
    /\ \E g \in DOMAIN tasks : Denied(g)

C10_RejectsAfterBatchSettled ==
    (procPc = "rejected" /\ tasks # <<>>) => \A g \in Batch : Settled(g)

\* C10 (amended): with continueOnError false process rejects as soon as one
\* member of the in-flight batch has rejected, without waiting for the other
\* members; after the rejection no later batch starts and in-flight members
\* only move on to settle.  With continueOnError true process never rejects
\* for a member's failure.
C10_RejectsOnFirstRejection ==
    /\ [](procPc = "waiting" =>
            (ENABLED ProcessRejects <=>
               (~opts.continueOnError /\ NoneChecked
                  /\ \E g \in Batch : tasks[g].st = "rejected")))
    /\ []((procPc = "rejected" /\ tasks # <<>>) =>
            /\ ~opts.continueOnError
            /\ \E g \in Batch : tasks[g].st = "rejected"
            /\ \A g \in DOMAIN tasks : g > BatchEnd => tasks[g].st = "new")
    /\ [][procPc = "rejected" =>
            /\ procPc' = "rejected"
            /\ batchStart' = batchStart
            /\ \A g \in DOMAIN tasks :
                  tasks'[g].st # tasks[g].st =>
                      (tasks[g].st = "validating" /\ tasks'[g].st \in {"fulfilled", "rejected"})]_vars

\* process has rejected while another member of the batch is still in flight
\* and a later batch exists.
C10_Witness ==
    /\ procPc = "rejected"
    /\ tasks # <<>>
    /\ \E g \in Batch : tasks[g].st = "rejected"
    /\ \E g \in Batch : tasks[g].st = "validating"
    /\ BatchEnd < Len(emails)

\* The batch an input position belongs to (batches are numbered from 0).
BatchOf(g) == (g - 1) \div opts.concurrency

InFlight == {g \in DOMAIN tasks : tasks[g].st = "validating"}

\* C11: addresses are processed in consecutive batches of size concurrency:
\* no address of a later batch begins its admission check or its validation
\* before every address of the earlier batches has settled, so at most
\* concurrency pipeline runs are in flight at any time.
C11_BatchesAreSequential ==
    /\ \A g \in DOMAIN tasks :
          tasks[g].st # "new" =>
              \A h \in DOMAIN tasks : BatchOf(h) < BatchOf(g) => Settled(h)
    /\ Cardinality(InFlight) <= opts.concurrency

\* The second batch is running with concurrency 2: the first batch has
\* settled and a member of the second batch is in flight.
C11_Witness ==
    /\ procPc = "waiting"
    /\ opts.concurrency = 2
    /\ batchStart = 3
    /\ tasks[3].st = "validating"
    /\ Settled(1) /\ Settled(2)

\* The addresses whose admission check has been made, and those admitted.
Checked == {g \in DOMAIN tasks : tasks[g].st # "new"}

AdmittedSet == {g \in Checked : tasks[g].allowed}

DomainsOf(es) == {extractDomain(es[g]) : g \in DOMAIN es}

\* A limiter with a single bucket kind is installed and enabled.
OneBucketKind ==
    /\ opts.rateLimit # Null
    /\ opts.rateLimit.enabled
    /\ (opts.rateLimit.global = Null) # (opts.rateLimit.perDomain = Null)

\* C12: for N admission checks against one bucket of capacity C with zero
\* elapsed time, issued one per batch or together from one batch, exactly
\* min(N, C) are allowed and the rest are denied, and every admission has
\* taken a token of its own out of the bucket.
C12_ExactAdmissions ==
    (OneBucketKind /\ now = 0 /\ tasks # <<>>) =>
        IF opts.rateLimit.global # Null
        THEN /\ Cardinality(AdmittedSet) =
                   Min(Cardinality(Checked), opts.rateLimit.global.requests)
             /\ rateLimiter.globalBucket.tokens =
                   (opts.rateLimit.global.requests - Cardinality(AdmittedSet))
                      * TokenUnit(rateLimiter.globalBucket)
        ELSE \A d \in DomainsOf(emails) :
                LET sameDomain == {g \in Checked : extractDomain(emails[g]) = d}
                    admitted   == sameDomain \cap AdmittedSet
                IN  /\ Cardinality(admitted) =
                          Min(Cardinality(sameDomain), opts.rateLimit.perDomain.requests)
                    /\ sameDomain # {} =>
                          /\ HasDomainBucket(rateLimiter, d)
                          /\ LET b == rateLimiter.perDomainBuckets[
                                         DomainBucketIndex(rateLimiter, d)].bucket
                             IN  b.tokens =
                                    (opts.rateLimit.perDomain.requests
                                       - Cardinality(admitted)) * TokenUnit(b)

\* Three checks against a bucket of capacity 2, two of them issued together
\* from one batch: two are admitted and the third is denied.
C12_Witness ==
    /\ OneBucketKind
    /\ now = 0
    /\ opts.rateLimit.global # Null
    /\ opts.rateLimit.global.requests = 2
    /\ opts.concurrency = 2
    /\ Cardinality(Checked) = 3
    /\ Cardinality(AdmittedSet) = 2

\* An enabled limiter with a global bucket only.
GlobalLimitOnly ==
    /\ opts.rateLimit # Null
    /\ opts.rateLimit.enabled
    /\ opts.rateLimit.global # Null
    /\ opts.rateLimit.perDomain = Null

\* C13: in a bulk run over more well-formed addresses than the global limit
\* C allows, with negligible elapsed time and for any concurrency, the
\* addresses at input positions 1 to C are admitted and validated and the
\* later ones get failureReason = "rate-limit": admission within a run is
\* granted in input-index order.
C13_AdmissionInInputOrder ==
    (GlobalLimitOnly /\ now = 0 /\ tasks # <<>>) =>
        /\ AdmittedSet = {g \in Checked : g <= opts.rateLimit.global.requests}
        /\ Returned =>
              \A g \in DOMAIN tasks :
                 IF g <= opts.rateLimit.global.requests
                 THEN Called(g) /\ ret.results[g].reason # "rate-limit"
                 ELSE /\ ~Called(g)
                      /\ ~ret.results[g].valid
                      /\ ret.results[g].reason = "rate-limit"

\* A returned run over three addresses with a global limit of two and two
\* addresses per batch: the first two were validated, the third was denied.
C13_Witness ==
    /\ GlobalLimitOnly
    /\ now = 0
    /\ Returned
    /\ Len(emails) = 3
    /\ opts.concurrency = 2
    /\ opts.rateLimit.global.requests = 2
    /\ Called(1) /\ Called(2) /\ ~Called(3)
    /\ ret.results[3].reason = "rate-limit"

\* A further process call starts on the instance (step of ProcessAgain).
NextCallStarts == procPc \in {"returned", "rejected"} /\ procPc' = "loop"

\* C14: token buckets live as long as the BulkProcessor instance: the tokens
\* consumed during one process call are still consumed when the next
\* process call on the same instance starts (a call start refills nothing),
\* and the buckets created for the observed domains are kept.
C14_BucketsOutliveCall ==
    [][(NextCallStarts /\ rateLimiter # Null) =>
          /\ rateLimiter' # Null
          /\ rateLimiter.globalBucket # Null =>
                /\ rateLimiter'.globalBucket # Null
                /\ rateLimiter'.globalBucket.tokens <= rateLimiter.globalBucket.tokens
          /\ \A k \in 1..Len(rateLimiter.perDomainBuckets) :
                /\ HasDomainBucket(rateLimiter', rateLimiter.perDomainBuckets[k].domain)
                /\ rateLimiter'.perDomainBuckets[k].bucket.tokens
                      <= rateLimiter.perDomainBuckets[k].bucket.tokens]_vars

\* The points the scoring table gives to a stage.
Weight(name) ==
    CASE name = "regex"      -> 20
      [] name = "typo"       -> 10
      [] name = "disposable" -> 20
      [] name = "mx"         -> 20
      [] name = "smtp"       -> 30

RECURSIVE SumWeights(_)
SumWeights(S) ==
    IF S = {} THEN 0
    ELSE LET n == CHOOSE x \in S : TRUE
         IN  Weight(n) + SumWeights(S \ {n})

\* The stages present in the results map with passed = true.
PassedStages ==
    {n \in Names : \E i \in 1..Len(ctxResults) :
                      ctxResults[i].name = n /\ ctxResults[i].valid}

\* C15: score = min(100, sum of the weights regex 20, typo 10, disposable 20,
\* mx 20, smtp 30 over exactly the stages present in the results map with
\* passed = true); absent or failed stages contribute 0, the empty map scores
\* 0, and the score lies in [0, 100].
C15_ScoreIsSumOfPassedWeights ==
    final # NoResult =>
        /\ final.score = Min(100, SumWeights(PassedStages))
        /\ final.score \in 0..100
        /\ ctxResults = <<>> => final.score = 0

\* A formatted run with a failed stage, an absent stage and two passed
\* stages (regex and smtp).
C15_Witness ==
    /\ final # NoResult
    /\ final.score = 50
    /\ PassedStages = {"regex", "smtp"}
    /\ \E i \in 1..Len(ctxResults) : ~ctxResults[i].valid
    /\ \E n \in Names : ~Recorded(n)

\* A finished run on x@mailinator.com under a default configuration in
\* which no validator threw.
DisposableScenario ==
    /\ final # NoResult
    /\ ctxEmail = EmailD
    /\ config \in {defaultConfig, defaultConfigStrict}
    /\ \A i \in 1..Len(ctxResults) : ctxResults[i].code # "VALIDATION_ERROR"

SmtpOver == smtpPc \in {"done", "crashed"}

\* C17: every blocking network operation of a validation (each DNS lookup,
\* the TCP connect, the TLS handshake, each SMTP command round-trip) is
\* guarded by its own deadline, so the call returns within bounded time even
\* if the DNS server or the SMTP peer never responds.
C17_ValidationReturns == <>SmtpOver

\* Once the MX host is known the timers do bring the call to an end.
ReturnsOnceResolved == (smtpPc = "connect") ~> SmtpOver

\* The read that follows RCPT TO hands a reply to step 6, which returns a
\* probe result or throws the connection-failed error.
RcptClassified ==
    /\ smtpPc = "rcpt"
    /\ io = "reading"
    /\ \/ smtpPc' \in {"sleep", "done"}
       \/ smtpPc' = "quit" /\ caught' = ConnectionFailed

\* C18: with verifyMailbox enabled a probe attempt reports valid = true with
\* mailboxExists = true only if the server's reply to that attempt's RCPT TO
\* has code 250 or 251, greylisted only for 450/451, mailbox-absent only for
\* 550/551/553, and turns every other RCPT reply code into a
\* connection-failed error.  The reply classified is therefore one the
\* server sent after it was handed RCPT TO, and the result kept carries the
\* class of its code.
C18_RcptReplyClassified ==
    /\ [][RcptClassified => ~awaiting]_vars
    /\ []((smtpConfig.verifyMailbox /\ lastResult.set) =>
            /\ (lastResult.valid /\ lastResult.mailboxExists)
                  <=> lastResult.code \in {250, 251}
            /\ lastResult.greylisted <=> lastResult.code \in {450, 451}
            /\ (~lastResult.valid /\ ~lastResult.greylisted)
                  <=> lastResult.code \in {550, 551, 553})

\* C19: if the last permitted probe attempt is greylisted (RCPT reply 450 or
\* 451), the smtp outcome is a failure of kind SMTP_CONNECTION_FAILED
\* carrying greylisted = true, never SMTP_MAILBOX_NOT_FOUND; a greylisted
\* attempt is only ever kept as the result when no attempt is left.
C19_GreylistedIsConnectionFailed ==
    /\ (smtpPc = "done" /\ lastResult.set /\ lastResult.greylisted) =>
          /\ attempt = smtpConfig.retries
          /\ lastResult.code \in {450, 451}
          /\ ~smtpResult.outcome.valid
          /\ smtpResult.outcome.code = "SMTP_CONNECTION_FAILED"
          /\ smtpResult.outcome.code # "SMTP_MAILBOX_NOT_FOUND"
          /\ smtpResult.greylisted
    /\ smtpPc = "sleep" => attempt <= smtpConfig.retries

\* Both permitted attempts were greylisted.
C19_Witness ==
    /\ smtpPc = "done"
    /\ lastResult.set
    /\ lastResult.greylisted
    /\ smtpConfig.retries = 1
    /\ connections = 2
    /\ lastSleep = GreylistDelay

\* The all-zero outcome.
ZeroOutcome == [results |-> <<>>, total |-> 0, valid |-> 0, invalid |-> 0, errors |-> 0]

\* No admission check was made and the pipeline was not invoked: no batch
\* member exists, validate() was not called, and the limiter, if one was
\* installed, still holds every token.
NothingStarted ==
    /\ tasks = <<>>
    /\ validateCalls = <<>>
    /\ progress = <<>>
    /\ results = <<>>
    /\ opts.rateLimit # Null => rateLimiter = newRateLimiter(opts.rateLimit, now)

RejectedWith(error) == procPc = "rejected" /\ ret = [error |-> error] /\ NothingStarted

\* C20 as claimed: process rejects non-list input with a type error and any
\* call with concurrency < 1 with a range error, in both cases before any
\* admission check or pipeline invocation, and an empty input list returns
\* the all-zero outcome without invoking the pipeline.
C20_InputValidationAsClaimed ==
    procPc # "idle" =>
        /\ emails = NotArray => RejectedWith("TypeError")
        /\ (emails # NotArray /\ opts.concurrency < 1) => RejectedWith("RangeError")
        /\ (emails = <<>> /\ opts.concurrency >= 1) =>
              Returned /\ ret = ZeroOutcome /\ NothingStarted

\* C20 (amended): process rejects non-list input with a type error and any
\* call with a non-empty list and concurrency < 1 with a range error, in both
\* cases before any admission check or pipeline invocation, and an empty
\* input list returns the all-zero outcome without invoking the pipeline,
\* whatever the concurrency.
C20_InputValidation ==
    procPc # "idle" =>
        /\ emails = NotArray => RejectedWith("TypeError")
        /\ (emails \notin {NotArray, <<>>} /\ opts.concurrency < 1) =>
              RejectedWith("RangeError")
        /\ emails = <<>> => Returned /\ ret = ZeroOutcome /\ NothingStarted

\* process([], {concurrency: 0}) has returned the all-zero outcome.
C20_Witness ==
    /\ Returned
    /\ emails = <<>>
    /\ opts.concurrency = 0
    /\ ret = ZeroOutcome

\* The address has no extractable domain: not exactly one "@", or nothing
\* after it.
NoExtractableDomain(e) ==
    \/ Cardinality({k \in 1..Len(e) : e[k] = "@"}) # 1
    \/ e[Len(e)] = "@"

\* C21: an admission check always allows when rate limiting is disabled, and
\* always allows an email with no extractable domain; in both cases no
\* bucket's token count changes and no per-domain bucket is created.
C21_DisabledOrNoDomainIsFree ==
    [][(completed' = completed + 1
          /\ (~rateLimiter.enabled \/ NoExtractableDomain(emails'[1])))
       => /\ ret'.allowed
          /\ rateLimiter' = rateLimiter]_vars

\* An address without a domain has just been allowed by an enabled limiter
\* whose global bucket is empty.
C21_Witness ==
    /\ completed >= 2
    /\ NoExtractableDomain(emails[1])
    /\ ret.allowed
    /\ rateLimiter.enabled
    /\ rateLimiter.globalBucket # Null
    /\ rateLimiter.globalBucket.tokens = 0

\* Position of a stage in the order regex, typo, disposable, mx, smtp.
StagePosition(name) ==
    CHOOSE k \in 1..5 : <<"regex", "typo", "disposable", "mx", "smtp">>[k] = name

\* C22: within one pipeline run the stages invoked form a subsequence of
\* regex, typo, disposable, mx, smtp in that order, each invoked at most once
\* and never overlapping in time (the only stage that can be running is the
\* one invoked last, every earlier one has settled); a disabled stage is
\* never invoked and has no entry in the results map.
C22_StagesInOrderNoOverlap ==
    /\ \A i, j \in 1..Len(invoked) :
          i < j => StagePosition(invoked[i]) < StagePosition(invoked[j])
    /\ Cardinality(pending) <= 1
    /\ \A n \in pending : invoked # <<>> /\ n = invoked[Len(invoked)]
    /\ \A i \in 1..Len(invoked) : invoked[i] \notin pending => Recorded(invoked[i])
    /\ \A n \in Names \ config.enabled :
          /\ \A i \in 1..Len(invoked) : invoked[i] # n
          /\ n \notin pending
          /\ ~Recorded(n)
          /\ (final # NoResult => n \notin final.validators)

\* A finished run with typo and mx disabled in which regex, disposable and
\* smtp were invoked.
C22_Witness ==
    /\ final # NoResult
    /\ config.enabled = {"regex", "disposable", "smtp"}
    /\ invoked = <<"regex", "disposable", "smtp">>
    /\ final.validators = {"regex", "disposable", "smtp"}

\* The outcome recorded for the stage is the one synthesized for a thrown
\* error (no validator returns the code VALIDATION_ERROR itself).
Thrown(name) ==
    \E i \in 1..Len(ctxResults) :
        ctxResults[i].name = name /\ ctxResults[i].code = "VALIDATION_ERROR"

\* The outcome synthesized for a thrown error has passed=false and severity
\* error, and the run's result, once returned, holds it and is not valid.
ThrownIsRecorded(name) ==
    /\ \A i \in 1..Len(ctxResults) :
          ctxResults[i].name = name
              => ~ctxResults[i].valid /\ ctxResults[i].severity = "error"
    /\ final # NoResult => name \in final.validators /\ ~final.valid

\* Every enabled stage after position k has an outcome in the returned result.
FollowingStagesRan(k) ==
    final # NoResult =>
        \A j \in (k + 1)..Len(validatorOrder) :
            validatorOrder[j] \in config.enabled
                => Recorded(validatorOrder[j]) /\ validatorOrder[j] \in final.validators

\* C23 as stated: if a stage throws an unexpected error, the orchestrator
\* records for it an outcome with passed=false, a generic error code and
\* severity error, does not propagate the exception, and continues the
\* pipeline with the following stages, ending in an AggregatedResult.
C23_ThrownStageContinues ==
    \A k \in 1..Len(validatorOrder) :
        Thrown(validatorOrder[k]) =>
            ThrownIsRecorded(validatorOrder[k]) /\ FollowingStagesRan(k)

\* C23, amended: the same, except that the following stages are run only
\* when earlyExit is not configured; with earlyExit the thrown error ends the
\* loop and no later stage has an outcome.  Either way the run ends in an
\* AggregatedResult.
C23_ThrownStageContinuesUnlessEarlyExit ==
    \A k \in 1..Len(validatorOrder) :
        Thrown(validatorOrder[k]) =>
            /\ ThrownIsRecorded(validatorOrder[k])
            /\ ~config.earlyExit => FollowingStagesRan(k)
            /\ config.earlyExit =>
                  \A j \in (k + 1)..Len(validatorOrder) : ~Recorded(validatorOrder[j])

\* A returned result of a run without earlyExit in which typo threw and
\* disposable and mx ran after it.
C23_Witness ==
    /\ final # NoResult
    /\ ~config.earlyExit
    /\ Thrown("typo")
    /\ Recorded("disposable")
    /\ Recorded("mx")
    /\ {"typo", "disposable", "mx"} \subseteq final.validators

\* The attempt in progress holds a socket (connectToSMTP has resolved).
AttemptConnected ==
    /\ smtpPc \in {"greeting", "ehlo", "helo", "starttls", "tls", "tlsehlo",
                   "mailfrom", "rcpt", "quit"}
    /\ socket # "none"

\* C24: on every exit path of a probe attempt on which a connection was
\* established (a classified result as well as a failure or exception) the
\* prober has attempted to send QUIT by the time the attempt is over and its
\* socket closed.
C24_QuitBeforeClose ==
    [][(AttemptConnected /\ smtpPc' \in {"sleep", "done"})
          => \E i \in 1..Len(sent') : sent'[i].cmd = "QUIT"]_vars

\* The last line of the data read so far, without its terminator.
LastLineOf(data) ==
    LET lines == splitLines(trim(data))
    IN  lines[Len(lines)]

\* A final reply line: three digits followed by a space.
IsFinalLine(line) ==
    /\ Len(line) >= 4
    /\ \A k \in 1..3 : line[k] \in {"0", "1", "2", "3", "4", "5", "6", "7", "8", "9"}
    /\ line[4] = " "

\* C25: a response read completes only when a final (code + space) line has
\* been received; a continuation line (code + dash) never completes a read,
\* however the reply is split across chunks.
C25_ReadCompletesOnFinalLine ==
    [][\A n \in 1..Len(wire) :
          DataCompletes(n) => IsFinalLine(LastLineOf(buffer \o Chunk(n)))]_vars

\* The reply advertises STARTTLS on one of its lines.
AdvertisesSTARTTLS(reply) == \E k \in 1..Len(reply) : reply[k] = "STARTTLS"

\* The read of the EHLO reply completes on the n first items of the wire, and
\* what it has read is one whole reply of the peer.
EhloReplyRead(n) ==
    /\ smtpPc = "ehlo"
    /\ DataCompletes(n)
    /\ (buffer \o Chunk(n)) \in Replies

\* MAIL FROM and RCPT TO were written to a TLS socket only.
EnvelopeOverTLS ==
    \A i \in 1..Len(sent) :
        sent[i].cmd \in {"MAIL FROM", "RCPT TO"} => sent[i].tls

\* C26: if tlsRequired is true and the EHLO reply advertises STARTTLS, on any
\* line of a multi-line reply, the prober sends STARTTLS next (and, after 220,
\* upgrades and sends EHLO again); MAIL FROM and RCPT TO are sent only over
\* TLS.
C26_StartTlsWhenAdvertised ==
    /\ [][\A n \in 1..Len(wire) :
            (/\ smtpConfig.tlsRequired = "true"
             /\ EhloReplyRead(n)
             /\ AdvertisesSTARTTLS(buffer \o Chunk(n)))
                => /\ smtpPc' = "starttls"
                   /\ sent' = Append(sent, [cmd |-> "STARTTLS", tls |-> FALSE])]_vars
    /\ [](smtpConfig.tlsRequired = "true" => EnvelopeOverTLS)

\* The attempt fails with connection-failed: the error is thrown inside
\* performSMTPVerification and held while QUIT is exchanged.
FailsConnectionFailed ==
    /\ smtpPc' = "quit"
    /\ caught' = [class |-> "ValidationError", code |-> "SMTP_CONNECTION_FAILED",
                  message |-> "other"]

\* The greeting exchange ends with a 250 (to EHLO, or to HELO after EHLO was
\* refused) and nothing read in answer to EHLO advertises STARTTLS.
HeloDoneWithoutSTARTTLS(n) ==
    /\ DataCompletes(n)
    /\ parseSMTPResponse(buffer \o Chunk(n)).code = 250
    /\ \/ smtpPc = "ehlo" /\ ~AdvertisesSTARTTLS(buffer \o Chunk(n))
       \/ smtpPc = "helo" /\ ~AdvertisesSTARTTLS(heloResponse.message)

\* C27: if tlsRequired is true and the EHLO reply does not advertise
\* STARTTLS, the attempt fails with connection-failed, and neither MAIL FROM
\* nor RCPT TO is sent in plaintext.
C27_TlsRequiredWithoutSTARTTLSFails ==
    /\ [][\A n \in 1..Len(wire) :
            (smtpConfig.tlsRequired = "true" /\ HeloDoneWithoutSTARTTLS(n))
                => FailsConnectionFailed]_vars
    /\ [](smtpConfig.tlsRequired = "true" => EnvelopeOverTLS)

\* With tlsRequired, an attempt has failed with connection-failed right after
\* EHLO was answered and is saying QUIT; no envelope command was sent.
C27_Witness ==
    /\ smtpConfig.tlsRequired = "true"
    /\ smtpPc = "quit"
    /\ caught = ConnectionFailed
    /\ sent = <<[cmd |-> "EHLO", tls |-> FALSE], [cmd |-> "QUIT", tls |-> FALSE]>>

\* C28: when tlsRequired is false or left unset and the server advertises
\* STARTTLS (here on the final line of its EHLO reply, where the prober looks
\* for it), a probe started by the smtp validator still sends STARTTLS.
C28_OpportunisticTLS ==
    [][\A n \in 1..Len(wire) :
          (/\ smtpConfig.tlsRequired # "true"
           /\ EhloReplyRead(n)
           /\ IsFinalLine(LastLineOf(buffer \o Chunk(n)))
           /\ AdvertisesSTARTTLS(LastLineOf(buffer \o Chunk(n))))
              => /\ smtpPc' = "starttls"
                 /\ sent' = Append(sent, [cmd |-> "STARTTLS", tls |-> FALSE])]_vars

\* The commands of the current attempt, QUIT left aside.
CommandsSent ==
    LET last == IF sent # <<>> /\ sent[Len(sent)].cmd = "QUIT"
                THEN Len(sent) - 1 ELSE Len(sent)
    IN  [i \in 1..last |-> sent[i].cmd]

\* The orders EHLO [HELO] [STARTTLS EHLO] MAIL FROM RCPT TO.
CommandOrders ==
    {<<"EHLO">> \o h \o t \o <<"MAIL FROM", "RCPT TO">> :
        h \in {<<>>, <<"HELO">>}, t \in {<<>>, <<"STARTTLS", "EHLO">>}}

IsPrefix(s, t) == Len(s) <= Len(t) /\ s = SubSeq(t, 1, Len(s))

\* This step writes the command cmd.
Sends(cmd) ==
    /\ Len(sent') = Len(sent) + 1
    /\ sent'[Len(sent')].cmd = cmd

\* This step completes the read of the step at pc with a response whose code
\* is in codes.
ReadsCode(pc, codes) ==
    /\ smtpPc = pc
    /\ \E n \in 1..Len(wire) :
          DataCompletes(n) /\ parseSMTPResponse(buffer \o Chunk(n)).code \in codes

\* C29: within one probe attempt the commands are sent in the order EHLO
\* (then HELO only if EHLO was not answered 250), optionally STARTTLS followed
\* by EHLO again, MAIL FROM, RCPT TO; each command is sent only after the
\* previous step received its required code (220 greeting, 250 to EHLO or
\* HELO, 220 to STARTTLS, 250 to MAIL FROM), and RCPT TO only if verifyMailbox
\* is true.
C29_CommandOrder ==
    /\ [](/\ \E order \in CommandOrders : IsPrefix(CommandsSent, order)
          /\ \A i \in 1..Len(sent) : sent[i].cmd = "QUIT" => i = Len(sent)
          /\ \A i \in 1..Len(sent) : sent[i].cmd = "RCPT TO" => smtpConfig.verifyMailbox)
    /\ [][/\ (Sends("EHLO") /\ sent = <<>>) => ReadsCode("greeting", {220})
          /\ Sends("HELO") => ReadsCode("ehlo", (0..999) \ {250})
          /\ Sends("STARTTLS") => ReadsCode("ehlo", {250}) \/ ReadsCode("helo", {250})
          /\ smtpPc' = "tls" => ReadsCode("starttls", {220}) \/ smtpPc = "tls"
          /\ (Sends("EHLO") /\ sent # <<>>) => smtpPc = "tls" /\ socket' = "tls"
          /\ Sends("MAIL FROM") =>
                \/ ReadsCode("ehlo", {250})
                \/ ReadsCode("helo", {250})
                \/ ReadsCode("tlsehlo", {250})
          /\ Sends("RCPT TO") => ReadsCode("mailfrom", {250})]_vars

\* An attempt that went through STARTTLS and has sent RCPT TO.
C29_Witness ==
    /\ smtpPc = "rcpt"
    /\ sent = <<[cmd |-> "EHLO", tls |-> FALSE], [cmd |-> "STARTTLS", tls |-> FALSE],
                [cmd |-> "EHLO", tls |-> TRUE], [cmd |-> "MAIL FROM", tls |-> TRUE],
                [cmd |-> "RCPT TO", tls |-> TRUE]>>

\* min(1000 * 2^attempt, 5000) for the attempts of the model.
ClaimedBackoff(att) ==
    CASE att = 0 -> 1000
      [] att = 1 -> 2000
      [] att = 2 -> 4000
      [] OTHER   -> 5000

\* The loop goes round again after sleeping for delay milliseconds.
RetriesAfter(delay) ==
    /\ smtpPc' = "sleep"
    /\ lastSleep' = delay
    /\ attempt' = attempt + 1
    /\ smtpResult' = NoResult

\* C30: after each probe attempt, a greylisted result with attempts remaining
\* is followed by another attempt after a 2-second wait; a mailbox-absent
\* result or an MX-not-found condition is never followed by another attempt;
\* a transient error with attempts remaining is followed by another attempt
\* after min(1000 * 2^attempt, 5000) ms.
C30_RetryDecisions ==
    [][/\ \A r \in ProbeResults :
             (smtpPc = "connect" /\ AttemptReturns(r)) =>
                 /\ (r.greylisted /\ attempt < smtpConfig.retries) => RetriesAfter(2000)
                 /\ (~r.valid /\ ~r.greylisted) =>
                        /\ smtpPc' = "done"
                        /\ smtpResult'.outcome.code = "SMTP_MAILBOX_NOT_FOUND"
       /\ \A e \in ProbeErrors :
             (smtpPc = "connect" /\ AttemptThrows(e, "destroyed")
                 /\ attempt < smtpConfig.retries) => RetriesAfter(ClaimedBackoff(attempt))
       /\ (smtpPc = "a" /\ smtpPc' # "connect") =>
             /\ smtpPc' = "done"
             /\ smtpResult'.outcome.code = "MX_NOT_FOUND"
       /\ smtpPc = "sleep" => smtpPc' = "connect"
       /\ smtpPc = "done" => smtpPc' = "done" /\ connections' = connections]_vars

\* The fourth retry is about to start after a capped wait of 5 seconds.
C30_Witness ==
    /\ smtpPc = "sleep"
    /\ attempt = 4
    /\ connections = 4
    /\ lastSleep = 5000

\* The probe attempt has returned or thrown: validate() sleeps before the
\* next attempt or has produced its result.
AttemptOver == smtpPc \in {"sleep", "done"} /\ connections > 0

\* C31: every TCP/TLS socket opened by a probe attempt is closed by the time
\* that attempt returns or throws, on every exit path (results, timeouts, TLS
\* upgrade failures, exceptions); no socket outlives its attempt, and the
\* next attempt starts without one.
C31_SocketsClosed ==
    /\ AttemptOver => socket = "destroyed"
    /\ smtpPc = "connect" => socket = "none"

\* Two attempts are over, the second one after a TLS upgrade, and the socket
\* is closed.
C31_Witness ==
    /\ smtpPc = "done"
    /\ connections = 2
    /\ tlsUsed
    /\ socket = "destroyed"

\* Number of calls of the DNS client's operation op made so far.
QueriesOf(op) == Cardinality({i \in 1..Len(dnsLog) : dnsLog[i].op = op})

\* The retry delays as the claim states them, attempt by attempt.
ClaimedDnsDelay(att) ==
    CASE att = 0 -> 1000 [] att = 1 -> 2000 [] att = 2 -> 4000 [] OTHER -> 5000

NotFoundMessage(message) ==
    \E k \in 1..Len(message) : message[k] \in {"ENOTFOUND", "NXDOMAIN"}

\* The lookup whose attempt is in flight stops in this step: no sleep is
\* logged and no further attempt of it is pending.
LookupStops ==
    /\ mxPc' \notin {"mxsleep", "asleep"}
    /\ \/ dnsLog' = dnsLog
       \/ dnsLog' = Append(dnsLog, Query("resolve4")) /\ mxPc = "mx"

\* C32: an MX or A lookup makes at most retries+1 attempts; it stops at the
\* first success; a not-found failure stops it at once; any other failure
\* is followed by a sleep of min(1000 * 2^attempt, 5000) ms and one more
\* attempt, except after the final attempt, which is followed by no sleep.
C32_LookupAttempts ==
    [][/\ QueriesOf("resolveMx")' <= mxConfig.retries + 1
       /\ QueriesOf("resolve4")' <= mxConfig.retries + 1
       /\ (ResolveMxAnswers \/ ResolveAAnswers) => LookupStops
       /\ (ResolveMxFails \/ ResolveAFails) =>
            IF NotFoundMessage(mxLastError') \/ mxAttempt = mxConfig.retries
            THEN LookupStops
            ELSE /\ mxPc' = (IF mxPc = "mx" THEN "mxsleep" ELSE "asleep")
                 /\ dnsLog' = Append(dnsLog, Slept(ClaimedDnsDelay(mxAttempt)))
       /\ (MxWake \/ AWake) =>
            /\ mxAttempt' = mxAttempt + 1
            /\ dnsLog' = Append(dnsLog,
                  Query(IF mxPc = "mxsleep" THEN "resolveMx" ELSE "resolve4"))]_vars

\* An MX lookup used all five attempts allowed by retries = 4, sleeping
\* 1000, 2000, 4000 and 5000 ms between them, and then gave up.
C32_Witness ==
    /\ mxPc = "done"
    /\ mxConfig = [retries |-> 4, fallbackToA |-> FALSE]
    /\ dnsLog = <<Query("resolveMx"), Slept(1000), Query("resolveMx"), Slept(2000),
                  Query("resolveMx"), Slept(4000), Query("resolveMx"), Slept(5000),
                  Query("resolveMx")>>
    /\ mxResult.outcome.code = "NETWORK_ERROR"

\* The error result that stands for a failed lookup, by the class of its
\* last error.
PropagatedFailure(message) ==
    /\ mxResult'.outcome.valid = FALSE
    /\ mxResult'.outcome.code =
          (IF NotFoundMessage(message) THEN "MX_NOT_FOUND" ELSE "NETWORK_ERROR")

\* C33: resolve4 is called if and only if fallbackToA is enabled and the MX
\* lookup produced no record (an empty answer, or a failure after its
\* attempts); with a record, or with fallbackToA disabled, it is never
\* called, and with fallbackToA disabled a failed MX lookup is the result.
C33_FallbackToA ==
    [][/\ QueriesOf("resolve4")' > 0 => mxConfig.fallbackToA /\ mxRecords' = <<>>
       /\ mxPc' = "done" =>
            (QueriesOf("resolve4")' > 0 <=> mxConfig.fallbackToA /\ mxRecords' = <<>>)
       /\ (mxPc = "mx" /\ mxPc' = "a") =>
            \/ ResolveMxAnswers /\ mxRecords' = <<>>
            \/ ResolveMxFails /\ (NotFoundMessage(mxLastError')
                                  \/ mxAttempt = mxConfig.retries)
       /\ (ResolveMxFails /\ ~mxConfig.fallbackToA /\ mxPc' # "mxsleep") =>
            mxPc' = "done" /\ PropagatedFailure(mxLastError')]_vars

\* An MX lookup that timed out on both of its attempts was followed by an
\* A lookup, whose address made the domain pass.
C33_Witness ==
    /\ mxPc = "done"
    /\ mxConfig = [retries |-> 1, fallbackToA |-> TRUE]
    /\ dnsLog = <<Query("resolveMx"), Slept(1000), Query("resolveMx"), Query("resolve4")>>
    /\ mxLastError = <<"DNS", "lookup", "timeout">>
    /\ aRecords # <<>>
    /\ mxResult.outcome.valid

\* A lookup gave up on a timeout of the race or on a connection error of
\* the resolver.
TransientFailure(message) ==
    \E k \in 1..Len(message) : message[k] \in {"timeout", "ECONNREFUSED"}

\* A failure that is neither not-found nor a timeout or connection error.
OtherFailure(message) ==
    message # NoDnsError /\ ~NotFoundMessage(message) /\ ~TransientFailure(message)

\* C34: the error of the mx outcome tells the class of the DNS failure:
\* not-found failures and empty answers give MX_NOT_FOUND, a lookup that
\* gave up on a timeout or connection error gives NETWORK_ERROR and not
\* MX_NOT_FOUND.
C34_ErrorKindByFailureClass ==
    [][(mxPc # "done" /\ mxPc' = "done" /\ ~mxResult'.outcome.valid) =>
          IF \/ TransientFailure(mxError')
             \/ ResolveAFails /\ TransientFailure(mxLastError')
          THEN mxResult'.outcome.code = "NETWORK_ERROR"
          ELSE \/ mxResult'.outcome.code = "MX_NOT_FOUND"
               \/ OtherFailure(mxError')
               \/ ResolveAFails /\ OtherFailure(mxLastError')]_vars

\* A check() call is made in this step.
CheckStep == completed' = completed + 1

\* The global bucket would deny at this moment: after its refill it holds
\* less than one token.
GlobalWouldDeny ==
    /\ rateLimiter.globalBucket # Null
    /\ refillBucket(rateLimiter.globalBucket, now).tokens
          < TokenUnit(rateLimiter.globalBucket)

\* C35: a check consults the global bucket before the per-domain bucket;
\* when the global bucket denies, the error is of type global and the
\* per-domain bucket of the domain is neither refilled, decremented nor
\* created.
C35_GlobalDenialLeavesDomainBuckets ==
    [][CheckStep =>
         /\ (rateLimiter.enabled /\ extractDomain(emails'[1]) # NoDomain
               /\ GlobalWouldDeny)
               => ~ret'.allowed /\ ret'.type = "global"
         /\ ret'.type = "global" =>
               /\ GlobalWouldDeny
               /\ rateLimiter'.perDomainBuckets = rateLimiter.perDomainBuckets]_vars

\* The global bucket denied a check for y.org, a domain that has no bucket,
\* while the bucket of x.com is empty, and no bucket was created.
C35_Witness ==
    /\ ret # NoReturn
    /\ ret.type = "global"
    /\ emails = <<EmailC>>
    /\ Len(rateLimiter.perDomainBuckets) = 1
    /\ rateLimiter.perDomainBuckets[1].domain = <<"x.com">>
    /\ rateLimiter.perDomainBuckets[1].bucket.tokens = 0

\* C36: a check that passes the global bucket and is denied by the
\* per-domain bucket leaves the global bucket decremented by one token,
\* which is not given back.
C36_GlobalTokenNotRefunded ==
    [][(CheckStep /\ ret'.type = "per-domain" /\ rateLimiter.globalBucket # Null) =>
          rateLimiter'.globalBucket.tokens =
             refillBucket(rateLimiter.globalBucket, now).tokens
                - TokenUnit(rateLimiter.globalBucket)]_vars

\* Two checks with no time elapsed took both tokens of a global bucket of
\* capacity 2, and the second was denied by the per-domain bucket: two
\* global tokens consumed for one admitted request.
C36_Witness ==
    /\ now = 0
    /\ completed = 2
    /\ ret # NoReturn
    /\ ret.type = "per-domain"
    /\ rateLimiter.globalBucket # Null
    /\ rateLimiter.globalBucket.capacity = 2
    /\ rateLimiter.globalBucket.tokens = 0

BucketInRange(bucket) ==
    /\ 0 <= bucket.tokens
    /\ bucket.tokens <= bucket.capacity * bucket.window * 1000

\* C38: every bucket of the limiter holds between 0 and capacity tokens,
\* whatever checks, resets and idle periods came before.
C38_TokensInRange ==
    /\ rateLimiter.globalBucket # Null => BucketInRange(rateLimiter.globalBucket)
    /\ \A k \in 1..Len(rateLimiter.perDomainBuckets) :
          BucketInRange(rateLimiter.perDomainBuckets[k].bucket)

\* After a long idle period a check refilled an emptied global bucket to
\* its capacity and took one token from it.
C38_Witness ==
    /\ now >= LongIdleMs
    /\ completed = 3
    /\ rateLimiter.globalBucket # Null
    /\ rateLimiter.globalBucket.capacity = 2
    /\ rateLimiter.globalBucket.lastRefill = now
    /\ rateLimiter.globalBucket.tokens = TokenUnit(rateLimiter.globalBucket)
    /\ Len(rateLimiter.perDomainBuckets) = 1

\* The addresses behind each tally: validated and found valid; denied by
\* the limiter or validated and found invalid; validation threw.
TalliedValid == {g \in DOMAIN tasks : ~Denied(g) /\ ~tasks[g].threw /\ ret.results[g].valid}

TalliedInvalid ==
    {g \in DOMAIN tasks : ~tasks[g].threw /\ (Denied(g) \/ ~ret.results[g].valid)}

TalliedError == {g \in DOMAIN tasks : tasks[g].threw}

\* C37: when process returns with continueOnError true, valid + invalid +
\* errors = total = len(emails), every address is counted in exactly one of
\* the three counters and every index of results holds an entry.
C37_TalliesPartitionAddresses ==
    (Returned /\ opts.continueOnError) =>
        /\ ret.total = Len(emails)
        /\ ret.valid + ret.invalid + ret.errors = ret.total
        /\ Len(ret.results) = Len(emails)
        /\ \A i \in 1..Len(emails) :
              ret.results[i] # Hole /\ ret.results[i].email = emails[i]
        /\ (emails # <<>>) =>
              /\ DOMAIN tasks = 1..Len(emails)
              /\ TalliedValid \cup TalliedInvalid \cup TalliedError = 1..Len(emails)
              /\ TalliedValid \cap TalliedInvalid = {}
              /\ TalliedValid \cap TalliedError = {}
              /\ TalliedInvalid \cap TalliedError = {}
              /\ ret.valid = Cardinality(TalliedValid)
              /\ ret.invalid = Cardinality(TalliedInvalid)
              /\ ret.errors = Cardinality(TalliedError)

\* A returned call with continueOnError true over three addresses, with two
\* batches, one address in each counter, the invalid one a rate-limit denial.
C37_Witness ==
    /\ Returned
    /\ opts.continueOnError
    /\ opts.concurrency = 2
    /\ Len(emails) = 3
    /\ ret.valid = 1 /\ ret.invalid = 1 /\ ret.errors = 1
    /\ \E g \in DOMAIN tasks : Denied(g)

\* C39: a validate call of the smtp validator makes at most retries + 1
\* probe attempts, greylist retries and transient-error retries counting
\* against the same attempt counter, in whatever order they occur.
C39_AttemptBudget ==
    /\ connections <= smtpConfig.retries + 1
    /\ smtpPc \in {"connect", "sleep"} => connections = attempt
    /\ smtpPc = "sleep" => attempt <= smtpConfig.retries

\* All five attempts allowed by retries = 4 were made; an earlier one threw
\* and the last retry followed a greylisted reply.
C39_Witness ==
    /\ smtpPc = "done"
    /\ smtpConfig.retries = 4
    /\ connections = 5
    /\ lastError # NoError
    /\ lastSleep = 2000

\* A call that passed no rateLimit option runs on an instance that has a
\* limiter from an earlier call.
InheritsLimiter == opts.rateLimit = Null /\ rateLimiter # Null

\* C40: the limiter installed by a process call that passes rateLimit stays
\* attached to the BulkProcessor: a later call on the same instance that
\* omits rateLimit starts with that limiter and its remaining tokens, and
\* its addresses are admitted or denied by it.
C40_LimiterStaysAttached ==
    [][/\ (NextCallStarts /\ opts'.rateLimit = Null) => rateLimiter' = rateLimiter
       /\ (InheritsLimiter /\ procPc = "loop" /\ procPc' = "waiting") =>
             /\ tasks'[batchStart].st = "checked"
             /\ tasks'[batchStart].allowed
                   = check(rateLimiter, emails[batchStart], now).allowed
             /\ rateLimiter' # Null]_vars

\* A call without rateLimit was denied its address by the limiter an
\* earlier call installed, whose x.com bucket is still empty.
C40_Witness ==
    /\ Returned
    /\ InheritsLimiter
    /\ emails = <<EmailA>>
    /\ ret.results[1].reason = "rate-limit"
    /\ ret.invalid = 1

----------------------------------------------------------------------------
PipeIdle ==
    /\ config = [enabled |-> {}, earlyExit |-> FALSE]
    /\ ctxEmail = EmailA
    /\ stage = LoopEnd
    /\ ctxResults = <<>>
    /\ invoked = <<>>
    /\ pending = {}
    /\ final = format(EmailA, <<>>)

Init == InitPipe /\ BulkIdle /\ SmtpIdle /\ MxIdle

Next == NextPipe

Spec == Init /\ [][Next]_vars

BulkInit == InitBulk /\ PipeIdle /\ SmtpIdle /\ MxIdle

SpecBulk == BulkInit /\ [][NextBulk]_vars

SpecCalls == BulkInit /\ [][NextCalls]_vars

LimiterInit == InitLimiter /\ PipeIdle /\ SmtpIdle /\ MxIdle

SpecLimiter == LimiterInit /\ [][NextLimiter]_vars

SmtpInit == InitSmtp /\ PipeIdle /\ BulkIdle /\ MxIdle

SpecSmtp == SmtpInit /\ [][NextSmtp]_vars

\* What the timers and the local callbacks of the prober guarantee: the
\* connect, read and handshake timers fire unless the awaited event comes
\* first, the write callback is called, and a sleep ends.  Nothing of the
\* kind stands behind the two lookups of getMXHost.
SmtpFairness ==
    /\ WF_vars(SmtpValidate)
    /\ WF_vars(ConnectFails)
    /\ WF_vars(WriteDone \/ WriteFails)
    /\ WF_vars(ReadTimeout)
    /\ WF_vars(TlsFails)
    /\ WF_vars(Wake)

SpecSmtpLive == SmtpInit /\ [][NextSmtp]_vars /\ SmtpFairness


RetryInit == InitRetry /\ PipeIdle /\ BulkIdle /\ MxIdle

SpecRetry == RetryInit /\ [][NextRetry]_vars

MxInit == InitMx /\ PipeIdle /\ BulkIdle /\ SmtpIdle

SpecMx == MxInit /\ [][NextMx]_vars

====
